---- MODULE Spec2Model ----
(***************************************************************************)
(* Model of gpu-hot's alerting core (src/core/alerts.py): the AlertManager *)
(* settings, its per-(node, gpu, rule) alert state, evaluate() and         *)
(* update_settings().                                                      *)
(*                                                                         *)
(* Python's None is the empty tuple <<>> and a present number x is <<x>>,  *)
(* so Optional[float] values can be compared without mixing types.        *)
(* Floats are integers: every number the model uses is integral.           *)
(***************************************************************************)
EXTENDS Integers, Sequences, FiniteSets, TLC

None == <<>>
Some(x) == <<x>>
\* A payload value float() rejects (a non-numeric string, a list).
NotANumber == <<0, 0>>

\* _safe_float: None stays None, a number converts, anything else gives None.
_safe_float(value) == IF Len(value) = 1 THEN value ELSE None

--------------------------------------------------------------------------
(* The universe the model runs in.                                         *)

\* Rule names, in the order of self.rules; fixed at construction.
RuleNames == <<"temperature", "memory_percent">>
NodeNames == {"node-1"}
GpuIds == <<"0", "1">>
\* time.time() readings (seconds): the ones of the tests, then every second
\* from 65 up to the last one the model takes.
MaxTime == 65
Times == {0, 5, 6, 10} \cup (65..MaxTime)

\* Readings a GPU reports: temperature, and memory used / total.
Temperatures == {None, Some(70), Some(78), Some(90)}
MemoryReadings == {[memory_used |-> Some(90), memory_total |-> Some(100)], [memory_used |-> Some(90), memory_total |-> Some(0)]}
MetricsSet == {[temperature |-> t, memory_used |-> m.memory_used, memory_total |-> m.memory_total] : t \in Temperatures, m \in MemoryReadings}

--------------------------------------------------------------------------
VARIABLES enabled, cooldown_seconds, reset_delta, rules, backend_settings, backends, _custom_backends, settings_store, _state, clock, call, pre, spawned, raised, streak, eventlet, pool, _lock, threads

\* The hub: the node records and the cache of HubMonitor, the hub's clock,
\* the last hub call with the records before it and the view it returned,
\* the polls in flight and what a reader saw, and the broadcast loop with
\* its subscribers.
VARIABLES node_status, node_cache, hub_time, hub_call, hub_pre, view, polls, observed, websocket_connections, running, loop, cycle, reachable, loop_tasks

\* gpu_disconnect: the module's set of GPUs that are simulated offline, and
\* the calls of _simulated_disconnect that are under way.
VARIABLES _simulated_offline_gpus, disconnects

gpu_vars == <<_simulated_offline_gpus, disconnects>>

hub_vars == <<node_status, node_cache, hub_time, hub_call, hub_pre, view, polls, observed, websocket_connections, running, loop, cycle, reachable, loop_tasks>>

settings == <<enabled, cooldown_seconds, reset_delta, rules, backend_settings, backends>>
\* What the handlers of the manager leave alone: the build, the lock and
\* the threads of the interleaved model.
concurrency == <<eventlet, _lock, threads>>
alert_vars == <<enabled, cooldown_seconds, reset_delta, rules, backend_settings, backends, _custom_backends, settings_store, _state, clock, call, pre, spawned, raised, streak, eventlet, pool, _lock, threads>>

vars == <<alert_vars, hub_vars, gpu_vars>>

\* The manager's fields as one value (what a call starts from).
Manager == [enabled |-> enabled, cooldown_seconds |-> cooldown_seconds, reset_delta |-> reset_delta, rules |-> rules, backend_settings |-> backend_settings, backends |-> backends, _custom_backends |-> _custom_backends, _state |-> _state]

--------------------------------------------------------------------------
(* AlertRule                                                               *)

is_enabled(rule) == rule.threshold > 0

\* The extractors of _default_rules.
memory_percent(gpu) == IF gpu.memory_used = None \/ gpu.memory_total = None \/ gpu.memory_total = Some(0) THEN None ELSE Some((gpu.memory_used[1] * 100) \div gpu.memory_total[1])

extractor(rule, gpu) == IF rule.name = "temperature" THEN _safe_float(gpu.temperature) ELSE memory_percent(gpu)

--------------------------------------------------------------------------
(* AlertManager.evaluate                                                   *)

\* A gate that forgets the enabled flag.
gate_without_enabled(self) == self.backends # <<>> /\ \E i \in 1..Len(self.rules) : is_enabled(self.rules[i])

\* The evaluator runs only when enabled, with a backend and an enabled rule.
_is_active_locked(self) == self.enabled /\ self.backends # <<>> /\ \E i \in 1..Len(self.rules) : is_enabled(self.rules[i])

\* self._state.setdefault(state_key, {"active": False, "last_sent": 0.0})
setdefault(states, state_key) == IF state_key \in DOMAIN states THEN states ELSE (state_key :> [active |-> FALSE, last_sent |-> 0]) @@ states

\* A comparison that takes an absent value for a violation.
over_threshold_or_absent(value, rule) == value = None \/ value[1] >= rule.threshold

over_threshold(value, rule) == value # None /\ value[1] >= rule.threshold

\* A resolution that lets the global reset delta go before the rule's own.
global_before_own(self, rule) == IF self.reset_delta # None THEN self.reset_delta ELSE rule.reset_delta

\* The reset delta a rule is evaluated with: its own, else the global one.
resolved_reset_delta(self, rule) == IF rule.reset_delta # None THEN rule.reset_delta ELSE self.reset_delta

\* Trigger guards that get the cooldown wrong: strictly more than the
\* cooldown, and no cooldown at all.
should_trigger_strict(self, state, timestamp) == ~state.active \/ (timestamp - state.last_sent) > self.cooldown_seconds
should_trigger_always(self, state, timestamp) == TRUE

\* The guard of the trigger branch.
should_trigger(self, state, timestamp) == ~state.active \/ (timestamp - state.last_sent) >= self.cooldown_seconds

\* The entry's state after a reading over the threshold.
over_state(self, state, timestamp) == IF should_trigger(self, state, timestamp) THEN [active |-> TRUE, last_sent |-> timestamp] ELSE state

\* A not-over branch that forgets to clear the flag.
keep_state(self, state, value, rule) == state

\* The entry's state after a reading that is not over the threshold.
not_over_state(self, state, value, rule) == [state EXCEPT !.active = FALSE]

\* recovered_now, for an entry that was active.
recovered_now(self, value, rule) ==
    LET delta == resolved_reset_delta(self, rule)
    IN  IF value = None THEN TRUE
        ELSE IF delta = None THEN TRUE
        ELSE value[1] <= rule.threshold - delta[1]

\* A recovery notice that ignores the cooldown.
should_notify_always(self, state, timestamp) == TRUE

\* cooldown = self.cooldown_seconds or 0.0; should_notify
should_notify(self, state, timestamp) ==
    LET cooldown == self.cooldown_seconds
    IN  cooldown <= 0 \/ (timestamp - state.last_sent) >= cooldown

\* A rule loop that looks the entry up before it asks whether the rule is enabled.
lookup_before_check(acc, self, node_name, gpu_id, metrics, rule, timestamp) ==
    LET value == extractor(rule, metrics)
        state_key == <<node_name, gpu_id, rule.name>>
        states == setdefault(acc._state, state_key)
        state == states[state_key]
    IN  IF ~is_enabled(rule) THEN [acc EXCEPT !._state = states]
        ELSE IF over_threshold(value, rule)
        THEN [_state |-> [states EXCEPT ![state_key] = over_state(self, state, timestamp)],
              triggered |-> IF should_trigger(self, state, timestamp) THEN Append(acc.triggered, <<rule.name, value>>) ELSE acc.triggered,
              recovered |-> acc.recovered]
        ELSE [_state |-> [states EXCEPT ![state_key] = not_over_state(self, state, value, rule)],
              triggered |-> acc.triggered,
              recovered |-> IF state.active /\ recovered_now(self, value, rule) /\ should_notify(self, state, timestamp) THEN Append(acc.recovered, <<rule.name, value>>) ELSE acc.recovered]

\* The body of the rule loop for one rule. acc carries the state table and
\* the device's triggered / recovered lists.
EvaluateRule(acc, self, node_name, gpu_id, metrics, rule, timestamp) ==
    IF ~is_enabled(rule) THEN acc
    ELSE LET value == extractor(rule, metrics)
             state_key == <<node_name, gpu_id, rule.name>>
             states == setdefault(acc._state, state_key)
             state == states[state_key]
         IN  IF over_threshold(value, rule)
             THEN [_state |-> [states EXCEPT ![state_key] = over_state(self, state, timestamp)],
                   triggered |-> IF should_trigger(self, state, timestamp) THEN Append(acc.triggered, <<rule.name, value>>) ELSE acc.triggered,
                   recovered |-> acc.recovered]
             ELSE [_state |-> [states EXCEPT ![state_key] = not_over_state(self, state, value, rule)],
                   triggered |-> acc.triggered,
                   recovered |-> IF state.active /\ recovered_now(self, value, rule) /\ should_notify(self, state, timestamp) THEN Append(acc.recovered, <<rule.name, value>>) ELSE acc.recovered]

RECURSIVE RuleLoop(_, _, _, _, _, _, _)
RuleLoop(acc, i, self, node_name, gpu_id, metrics, timestamp) ==
    IF i > Len(self.rules) THEN acc
    ELSE RuleLoop(EvaluateRule(acc, self, node_name, gpu_id, metrics, self.rules[i], timestamp), i + 1, self, node_name, gpu_id, metrics, timestamp)

\* One message per rule instead of one per GPU.
MessagePerRule(node_name, gpu_id, triggered, recovered) ==
    [i \in 1..Len(triggered) |-> [event |-> "alert", node_name |-> node_name, gpu_id |-> gpu_id, entries |-> <<triggered[i]>>]]
    \o [i \in 1..Len(recovered) |-> [event |-> "recovery", node_name |-> node_name, gpu_id |-> gpu_id, entries |-> <<recovered[i]>>]]

\* The messages evaluate hands to _dispatch for one GPU: one alert for all
\* its triggered rules, then one recovery notice for all its recovered rules.
DeviceMessages(node_name, gpu_id, triggered, recovered) ==
    (IF triggered # <<>> THEN <<[event |-> "alert", node_name |-> node_name, gpu_id |-> gpu_id, entries |-> triggered]>> ELSE <<>>)
    \o (IF recovered # <<>> THEN <<[event |-> "recovery", node_name |-> node_name, gpu_id |-> gpu_id, entries |-> recovered]>> ELSE <<>>)

\* The body of the loop over gpu_data.items() for one GPU.
EvaluateGpu(acc, self, node_name, gpu_id, metrics, timestamp) ==
    LET r == RuleLoop([_state |-> acc._state, triggered |-> <<>>, recovered |-> <<>>], 1, self, node_name, gpu_id, metrics, timestamp)
    IN  [_state |-> r._state, dispatched |-> acc.dispatched \o DeviceMessages(node_name, gpu_id, r.triggered, r.recovered)]

\* The loop over gpu_data.items(); the dict is iterated in the order of GpuIds.
RECURSIVE GpuLoop(_, _, _, _, _, _)
GpuLoop(acc, i, self, node_name, gpu_data, timestamp) ==
    IF i > Len(GpuIds) THEN acc
    ELSE IF GpuIds[i] \notin DOMAIN gpu_data THEN GpuLoop(acc, i + 1, self, node_name, gpu_data, timestamp)
    ELSE GpuLoop(EvaluateGpu(acc, self, node_name, GpuIds[i], gpu_data[GpuIds[i]], timestamp), i + 1, self, node_name, gpu_data, timestamp)

\* evaluate under the lock: the new state table and the dispatched messages.
evaluate(self, node_name, gpu_data, timestamp) ==
    IF ~_is_active_locked(self) THEN [_state |-> self._state, dispatched |-> <<>>]
    ELSE GpuLoop([_state |-> self._state, dispatched |-> <<>>], 1, self, node_name, gpu_data, timestamp)

\* A dispatcher that sends in line and stops at the first backend that raises.
dispatch_until_failure(self, message) ==
    [b \in {c \in 1..Len(self.backends) : \A a \in 1..c : self.backends[a].name # "failing"} |-> [backend |-> self.backends[b], message |-> message]]

\* _dispatch: one send task per backend for a message.
_dispatch(self, message) == [b \in 1..Len(self.backends) |-> [backend |-> self.backends[b], message |-> message]]

RECURSIVE DispatchAll(_, _, _)
DispatchAll(self, messages, i) == IF i > Len(messages) THEN <<>> ELSE _dispatch(self, messages[i]) \o DispatchAll(self, messages, i + 1)

NoGpuData == [g \in {} |-> None]

--------------------------------------------------------------------------
(* History kept for the properties: what the outside sees of the alerts.   *)

Keys == {<<n, GpuIds[g], RuleNames[r]>> : n \in NodeNames, g \in 1..Len(GpuIds), r \in 1..Len(RuleNames)}
NoStreak == [key \in Keys |-> None]

\* Whether a dispatched batch holds an `event` message for the key.
Notified(dispatched, event, key) == \E m \in 1..Len(dispatched) : dispatched[m].event = event /\ dispatched[m].node_name = key[1] /\ dispatched[m].gpu_id = key[2] /\ \E e \in 1..Len(dispatched[m].entries) : dispatched[m].entries[e][1] = key[3]

\* The rule of a name, as configured.
RuleNamed(rule_list, name) == rule_list[CHOOSE i \in 1..Len(rule_list) : rule_list[i].name = name]

\* The reading a call reports for a key (None when the GPU reports none).
Reading(rule_list, gpu_data, key) == extractor(RuleNamed(rule_list, key[3]), gpu_data[key[2]])

\* streak[key]: the time of the key's latest alert, as long as every reading
\* of the key reported since was at or over the rule's threshold and the
\* settings have not been replaced.
StreakAfter(node_name, gpu_data, timestamp, dispatched) ==
    [key \in Keys |->
        IF key[1] # node_name \/ key[2] \notin DOMAIN gpu_data THEN streak[key]
        ELSE LET value == Reading(rules, gpu_data, key)
             IN  IF value = None \/ value[1] < RuleNamed(rules, key[3]).threshold THEN None
                 ELSE IF Notified(dispatched, "alert", key) THEN Some(timestamp)
                 ELSE streak[key]]

\* _spawn_task: how a send task is run depends on the build. "inline" is
\* the environment of the tests (spawn_n calls the function, the backend
\* returns at once): the task is over when _dispatch returns. With eventlet
\* ("greenlet") the task gets a green thread, without it ("threadpool") it
\* is submitted to the module's ThreadPoolExecutor. A task waits as
\* "queued".
_spawn_task(queue, build, task) == IF build = "inline" THEN queue ELSE Append(queue, [backend |-> task.backend, message |-> task.message, status |-> "queued"])

RECURSIVE SpawnAll(_, _, _, _)
SpawnAll(queue, build, tasks, i) == IF i > Len(tasks) THEN queue ELSE SpawnAll(_spawn_task(queue, build, tasks[i]), build, tasks, i + 1)

\* The backend the tests construct the manager with.
DummyBackend == [name |-> "dummy"]

NoPayload == [type |-> "None"]

Evaluate(node_name, gpu_data, timestamp) ==
    /\ call.op = "idle"
    /\ timestamp >= clock
    /\ \E r \in {evaluate(Manager, node_name, gpu_data, timestamp)} :
        /\ clock' = timestamp
        /\ _state' = r._state
        /\ spawned' = DispatchAll(Manager, r.dispatched, 1)
        /\ pool' = SpawnAll(pool, eventlet, DispatchAll(Manager, r.dispatched, 1), 1)
        /\ call' = [op |-> "evaluate", node_name |-> node_name, gpu_data |-> gpu_data, timestamp |-> timestamp, payload |-> NoPayload, dispatched |-> r.dispatched, streak |-> streak, saved |-> TRUE]
        /\ pre' = Manager
        /\ raised' = "none"
        /\ streak' = StreakAfter(node_name, gpu_data, timestamp, r.dispatched)
        /\ UNCHANGED <<settings, _custom_backends, settings_store, concurrency>>
    /\ UNCHANGED <<hub_vars, gpu_vars>>

--------------------------------------------------------------------------
(* Settings payloads. A JSON value is a record tagged with its type; a     *)
(* dict's items are a function over the keys it carries; numbers are       *)
(* <<x>>, null is None.                                                    *)

Dict(items) == [type |-> "dict", items |-> items]
List(items) == [type |-> "list", items |-> items]
Null == [type |-> "None"]
\* A value of another JSON type (a string where an object or list is due).
Other == [type |-> "other"]
EmptyDict == [k \in {} |-> None]

\* dict.get(key, default)
Get(items, key, default) == IF key \in DOMAIN items THEN items[key] ELSE default

\* str(x).strip() on the strings of the model: " " is the only blank one.
strip(text) == IF text = " " THEN "" ELSE text

\* uuid4().hex for the i-th channel of a list: an id no payload carries.
uuid4(i) == IF i = 1 THEN "uuid-1" ELSE IF i = 2 THEN "uuid-2" ELSE "uuid-3"

--------------------------------------------------------------------------
(* Notification channels                                                   *)

DiscordChannel(url, id, on) == [type |-> "discord", webhook_url |-> url, id |-> id, enabled |-> on]
TelegramChannel(token, chat_id, id, on) == [type |-> "telegram", bot_token |-> token, chat_id |-> chat_id, id |-> id, enabled |-> on]
DiscordWebhookBackend(webhook_url) == [name |-> "discord", webhook_url |-> webhook_url]
TelegramBackend(bot_token, chat_id) == [name |-> "telegram", bot_token |-> bot_token, chat_id |-> chat_id]

\* Whether a backwards-compatible {"discord": cfg} / {"telegram": cfg} value is truthy.
Truthy(cfg) == cfg.type = "other" \/ (cfg.type = "dict" /\ DOMAIN cfg.items # {})

\* The dict form of a backends payload. A channel built here carries no id
\* ("" stands for the missing key).
NormalizeBackendDict(items) ==
    LET discord_cfg == Get(items, "discord", Null)
        telegram_cfg == Get(items, "telegram", Null)
        url == strip(Get(discord_cfg.items, "webhook_url", ""))
        token == strip(Get(telegram_cfg.items, "bot_token", ""))
        chat_id == strip(Get(telegram_cfg.items, "chat_id", ""))
        discord == IF Truthy(discord_cfg) /\ url # "" THEN <<DiscordChannel(url, "", Get(discord_cfg.items, "enabled", TRUE) # FALSE)>> ELSE <<>>
    IN  IF Truthy(discord_cfg) /\ discord_cfg.type # "dict" THEN [error |-> TRUE, value |-> <<>>]
        ELSE IF ~Truthy(telegram_cfg) THEN [error |-> FALSE, value |-> discord]
        ELSE IF telegram_cfg.type # "dict" THEN [error |-> TRUE, value |-> <<>>]
        ELSE IF token = "" \/ chat_id = "" THEN [error |-> TRUE, value |-> <<>>]
        ELSE [error |-> FALSE, value |-> Append(discord, TelegramChannel(token, chat_id, "", Get(telegram_cfg.items, "enabled", TRUE) # FALSE))]

\* One entry of the list form: the channels it adds, or the error it raises.
NormalizeBackendEntry(entry) ==
    IF entry.type # "dict" THEN [error |-> FALSE, value |-> <<>>]
    ELSE LET items == entry.items
             channel_type == Get(items, "type", "")
             on == Get(items, "enabled", TRUE) # FALSE
             id == Get(items, "id", "")
             url == strip(Get(items, "webhook_url", ""))
             token == strip(Get(items, "bot_token", ""))
             chat_id == strip(Get(items, "chat_id", ""))
         IN  IF channel_type = "discord"
             THEN IF ~on THEN [error |-> FALSE, value |-> <<DiscordChannel(url, id, FALSE)>>]
                  ELSE IF url = "" THEN [error |-> TRUE, value |-> <<>>]
                  ELSE [error |-> FALSE, value |-> <<DiscordChannel(url, id, TRUE)>>]
             ELSE IF channel_type = "telegram"
             THEN IF ~on THEN [error |-> FALSE, value |-> <<TelegramChannel(token, chat_id, id, FALSE)>>]
                  ELSE IF token = "" \/ chat_id = "" THEN [error |-> TRUE, value |-> <<>>]
                  ELSE [error |-> FALSE, value |-> <<TelegramChannel(token, chat_id, id, TRUE)>>]
             ELSE [error |-> FALSE, value |-> <<>>]

RECURSIVE NormalizeBackendList(_, _, _)
NormalizeBackendList(entries, i, normalized) ==
    IF i > Len(entries) THEN [error |-> FALSE, value |-> normalized]
    ELSE LET r == NormalizeBackendEntry(entries[i])
         IN  IF r.error THEN r ELSE NormalizeBackendList(entries, i + 1, normalized \o r.value)

_normalize_backend_payload(payload) ==
    IF payload.type = "None" THEN [error |-> FALSE, value |-> <<>>]
    ELSE IF payload.type = "dict" THEN NormalizeBackendDict(payload.items)
    ELSE IF payload.type # "list" THEN [error |-> TRUE, value |-> <<>>]
    ELSE NormalizeBackendList(payload.items, 1, <<>>)

\* Every channel gets an id (a fresh one when it has none) and a boolean enabled.
_ensure_channel_ids(channels) == [i \in 1..Len(channels) |-> [channels[i] EXCEPT !.id = IF @ = "" THEN uuid4(i) ELSE @]]

RECURSIVE BuildBackends(_, _)
BuildBackends(channels, i) ==
    IF i > Len(channels) THEN <<>>
    ELSE LET entry == channels[i]
             built == IF entry.enabled = FALSE THEN <<>>
                      ELSE IF entry.type = "discord" THEN (IF strip(entry.webhook_url) # "" THEN <<DiscordWebhookBackend(strip(entry.webhook_url))>> ELSE <<>>)
                      ELSE IF entry.type = "telegram" THEN (IF strip(entry.bot_token) # "" /\ strip(entry.chat_id) # "" THEN <<TelegramBackend(strip(entry.bot_token), strip(entry.chat_id))>> ELSE <<>>)
                      ELSE <<>>
         IN  built \o BuildBackends(channels, i + 1)

_build_backends_from_settings(channels) == BuildBackends(channels, 1)

--------------------------------------------------------------------------
(* AlertManager.update_settings                                            *)

\* A step of _apply_settings_locked: the manager it leaves and whether it raised.
Ok(self) == [self |-> self, error |-> FALSE]
Raise(self) == [self |-> self, error |-> TRUE]

\* An update that switches the evaluator on when the payload says nothing.
enabled_or_true(self, items) == IF "enabled" \in DOMAIN items THEN [self EXCEPT !.enabled = items.enabled] ELSE [self EXCEPT !.enabled = TRUE]

\* if "enabled" in payload
ApplyEnabled(self, items) == IF "enabled" \in DOMAIN items THEN [self EXCEPT !.enabled = items.enabled] ELSE self

\* A cooldown written without the sign check.
cooldown_unchecked(self, items) ==
    IF "cooldown_seconds" \notin DOMAIN items THEN Ok(self)
    ELSE IF _safe_float(items.cooldown_seconds) = None THEN Raise(self)
    ELSE Ok([self EXCEPT !.cooldown_seconds = _safe_float(items.cooldown_seconds)[1]])

\* if "cooldown_seconds" in payload
ApplyCooldown(self, items) ==
    IF "cooldown_seconds" \notin DOMAIN items THEN Ok(self)
    ELSE LET cooldown == _safe_float(items.cooldown_seconds)
         IN  IF cooldown = None THEN Raise(self)
             ELSE IF cooldown[1] < 0 THEN Raise(self)
             ELSE Ok([self EXCEPT !.cooldown_seconds = cooldown[1]])

\* if "reset_delta" in payload
ApplyResetDelta(self, items) ==
    IF "reset_delta" \notin DOMAIN items THEN Ok(self)
    ELSE IF items.reset_delta = None THEN Ok([self EXCEPT !.reset_delta = None])
    ELSE LET reset == _safe_float(items.reset_delta)
         IN  IF reset = None THEN Raise(self)
             ELSE IF reset[1] < 0 THEN Raise(self)
             ELSE Ok([self EXCEPT !.reset_delta = reset])

\* A lookup that hands an unknown name the first rule.
first_rule_index(rule_list, name) == IF \E i \in 1..Len(rule_list) : rule_list[i].name = name THEN CHOOSE i \in 1..Len(rule_list) : rule_list[i].name = name ELSE 1

\* rule_map[name]: the position of the rule of that name (0 when there is none).
RuleIndex(rule_list, name) == IF \E i \in 1..Len(rule_list) : rule_list[i].name = name THEN CHOOSE i \in 1..Len(rule_list) : rule_list[i].name = name /\ \A j \in (i + 1)..Len(rule_list) : rule_list[j].name # name ELSE 0

\* The "threshold" part of a rule entry.
ApplyRuleThreshold(rule, entry) ==
    IF "threshold" \notin DOMAIN entry THEN Ok(rule)
    ELSE LET threshold == _safe_float(entry.threshold)
         IN  IF threshold = None THEN Raise(rule)
             ELSE IF threshold[1] < 0 THEN Raise(rule)
             ELSE Ok([rule EXCEPT !.threshold = threshold[1]])

\* The "reset_delta" part of a rule entry.
ApplyRuleResetDelta(rule, entry) ==
    IF "reset_delta" \notin DOMAIN entry THEN Ok(rule)
    ELSE IF entry.reset_delta = None THEN Ok([rule EXCEPT !.reset_delta = None])
    ELSE LET delta == _safe_float(entry.reset_delta)
         IN  IF delta = None THEN Raise(rule)
             ELSE IF delta[1] < 0 THEN Raise(rule)
             ELSE Ok([rule EXCEPT !.reset_delta = delta])

\* The loop body for one entry of payload["rules"]: the rules it leaves.
ApplyRuleEntry(rule_list, entry) ==
    IF entry.type # "dict" THEN Raise(rule_list)
    ELSE LET name == Get(entry.items, "name", "")
             i == RuleIndex(rule_list, name)
         IN  IF name = "" \/ i = 0 THEN Ok(rule_list)
             ELSE LET t == ApplyRuleThreshold(rule_list[i], entry.items)
                      d == ApplyRuleResetDelta(t.self, entry.items)
                  IN  IF t.error THEN Raise([rule_list EXCEPT ![i] = t.self])
                      ELSE [self |-> [rule_list EXCEPT ![i] = d.self], error |-> d.error]

RECURSIVE ApplyRuleEntries(_, _, _)
ApplyRuleEntries(rule_list, entries, i) ==
    IF i > Len(entries) THEN Ok(rule_list)
    ELSE LET r == ApplyRuleEntry(rule_list, entries[i])
         IN  IF r.error THEN r ELSE ApplyRuleEntries(r.self, entries, i + 1)

\* if "rules" in payload
ApplyRules(self, items) ==
    IF "rules" \notin DOMAIN items THEN Ok(self)
    ELSE IF items.rules.type # "list" THEN Raise(self)
    ELSE LET r == ApplyRuleEntries(self.rules, items.rules.items, 1)
         IN  [self |-> [self EXCEPT !.rules = r.self], error |-> r.error]

\* A backends update that adds the payload's channels to the stored ones.
merge_backends(self, items) ==
    IF "backends" \notin DOMAIN items THEN Ok(self)
    ELSE IF self._custom_backends # None THEN Ok(self)
    ELSE LET normalized == _normalize_backend_payload(items.backends)
             channels == _ensure_channel_ids(self.backend_settings \o normalized.value)
         IN  IF normalized.error THEN Raise(self)
             ELSE Ok([self EXCEPT !.backend_settings = channels, !.backends = _build_backends_from_settings(channels)])

\* if "backends" in payload
ApplyBackends(self, items) ==
    IF "backends" \notin DOMAIN items THEN Ok(self)
    ELSE IF self._custom_backends # None THEN Ok(self)
    ELSE LET normalized == _normalize_backend_payload(items.backends)
             channels == _ensure_channel_ids(normalized.value)
         IN  IF normalized.error THEN Raise(self)
             ELSE Ok([self EXCEPT !.backend_settings = channels, !.backends = _build_backends_from_settings(channels)])

\* The part of _apply_settings_locked that reads and validates the payload,
\* field after field, writing each field as soon as it has passed.
ApplyPayload(self, payload) ==
    IF payload.type # "dict" THEN Raise(self)
    ELSE LET e == ApplyEnabled(self, payload.items)
             c == ApplyCooldown(e, payload.items)
             g == IF c.error THEN c ELSE ApplyResetDelta(c.self, payload.items)
             r == IF g.error THEN g ELSE ApplyRules(g.self, payload.items)
         IN  IF r.error THEN r ELSE ApplyBackends(r.self, payload.items)

\* self._state.clear()
\* An update that keeps the state table.
keep(states) == states

clear(states) == NoGpuData

\* get_settings: the snapshot the API returns (labels, units and the
\* defaults block left out).
_snapshot_for_response_locked(self, store) ==
    [enabled |-> self.enabled, cooldown_seconds |-> self.cooldown_seconds, reset_delta |-> self.reset_delta,
     rules |-> [i \in 1..Len(self.rules) |-> [name |-> self.rules[i].name, threshold |-> self.rules[i].threshold, reset_delta |-> self.rules[i].reset_delta, is_enabled |-> is_enabled(self.rules[i])]],
     backends |-> self.backend_settings,
     available_backends |-> [i \in 1..Len(self.backends) |-> self.backends[i].name],
     notifications_configured |-> self.backends # <<>>,
     active |-> _is_active_locked(self),
     persisted |-> store # None]

\* A snapshot that leaves the global reset delta out.
snapshot_without_reset_delta(self) == [enabled |-> self.enabled, cooldown_seconds |-> self.cooldown_seconds, reset_delta |-> None, rules |-> self.rules, backends |-> self.backend_settings]

_snapshot_for_storage_locked(self) == [enabled |-> self.enabled, cooldown_seconds |-> self.cooldown_seconds, reset_delta |-> self.reset_delta, rules |-> self.rules, backends |-> self.backend_settings]

\* What a failed save leaves of the file: the old document, or a truncated one.
Corrupt == [type |-> "corrupt"]

\* json.dump then json.load of a storage snapshot: the document on disk.
json_document(data) ==
    Dict([enabled |-> data.enabled,
          cooldown_seconds |-> Some(data.cooldown_seconds),
          reset_delta |-> data.reset_delta,
          rules |-> List([i \in 1..Len(data.rules) |-> Dict([name |-> data.rules[i].name, threshold |-> Some(data.rules[i].threshold), reset_delta |-> data.rules[i].reset_delta])]),
          backends |-> List([i \in 1..Len(data.backends) |-> Dict(data.backends[i])])])

\* JSONAlertSettingsStore.load: no file and an unreadable file give None.
load(file) == IF file.type \in {"None", "corrupt"} THEN Null ELSE file

\* `not stored`: None, {} and [] are falsy.
falsy(stored) == stored.type = "None" \/ (stored.type = "dict" /\ DOMAIN stored.items = {}) \/ (stored.type = "list" /\ stored.items = <<>>)

\* An update that rolls the settings back when the save fails.
apply_with_rollback(self, payload, persist, has_store, saved) ==
    IF ApplyPayload(self, payload).error THEN [self |-> ApplyPayload(self, payload).self, raised |-> "ValueError"]
    ELSE IF persist /\ has_store /\ ~saved THEN [self |-> self, raised |-> "RuntimeError"]
    ELSE [self |-> [ApplyPayload(self, payload).self EXCEPT !._state = NoGpuData], raised |-> "none"]

\* _apply_settings_locked: the manager it leaves and what it raises. `saved`
\* says whether the store's save succeeds.
_apply_settings_locked(self, payload, persist, has_store, saved) ==
    LET applied == ApplyPayload(self, payload)
        cleared == [applied.self EXCEPT !._state = clear(@)]
    IN  IF applied.error THEN [self |-> applied.self, raised |-> "ValueError"]
        ELSE IF persist /\ has_store /\ ~saved THEN [self |-> cleared, raised |-> "RuntimeError"]
        ELSE [self |-> cleared, raised |-> "none"]

\* update_settings(payload), with the outcome of the store's save. A failed
\* save leaves the old document or a truncated file; without a store there
\* is no save to fail.
UpdateSettings(payload, saved, truncated) ==
    /\ call.op = "idle"
    /\ saved => ~truncated
    /\ settings_store = None => saved
    /\ \E r \in {_apply_settings_locked(Manager, payload, TRUE, settings_store # None, saved)} :
        /\ enabled' = r.self.enabled
        /\ cooldown_seconds' = r.self.cooldown_seconds
        /\ reset_delta' = r.self.reset_delta
        /\ rules' = r.self.rules
        /\ backend_settings' = r.self.backend_settings
        /\ backends' = r.self.backends
        /\ _state' = r.self._state
        /\ settings_store' = IF settings_store = None \/ r.raised = "ValueError" THEN settings_store
                             ELSE IF saved THEN Some(json_document(_snapshot_for_storage_locked(r.self)))
                             ELSE IF truncated THEN Some(Corrupt) ELSE settings_store
        /\ raised' = r.raised
        /\ call' = [op |-> "update_settings", node_name |-> "", gpu_data |-> NoGpuData, timestamp |-> clock, payload |-> payload, dispatched |-> <<>>, streak |-> streak, saved |-> saved]
        /\ pre' = Manager
        /\ spawned' = <<>>
        /\ streak' = IF r.raised = "ValueError" THEN streak ELSE NoStreak
        /\ UNCHANGED <<_custom_backends, clock, pool, concurrency>>
    /\ UNCHANGED <<hub_vars, gpu_vars>>

--------------------------------------------------------------------------
(* Construction and the next-state relation.                               *)

AlertRule(name, threshold, delta) == [name |-> name, threshold |-> threshold, reset_delta |-> delta]

\* gpu_data dicts over a set of GPU ids, each GPU reporting one of `metrics`.
GpuData(ids, metrics) == UNION {[present -> metrics] : present \in SUBSET ids}

\* The history variables between two calls.
NoCall == [op |-> "idle", node_name |-> "", gpu_data |-> NoGpuData, timestamp |-> 0, payload |-> NoPayload, dispatched |-> <<>>, streak |-> NoStreak, saved |-> TRUE]

\* The manager as the constructor's arguments set it, before the store is
\* read. With backends=None the channels come from the environment, which
\* sets none.
Defaults(arg_enabled, arg_cooldown, arg_reset, arg_rules, arg_backends) ==
    [enabled |-> arg_enabled, cooldown_seconds |-> arg_cooldown, reset_delta |-> arg_reset, rules |-> arg_rules,
     backend_settings |-> <<>>, backends |-> IF arg_backends # None THEN arg_backends[1] ELSE <<>>,
     _custom_backends |-> arg_backends, _state |-> NoGpuData]

\* _load_persisted_settings: the stored document is applied without a save;
\* a ValueError is logged and swallowed.
_load_persisted_settings(self, arg_store) ==
    IF arg_store = None THEN self
    ELSE LET stored == load(arg_store[1])
         IN  IF falsy(stored) THEN self
             ELSE _apply_settings_locked(self, stored, FALSE, TRUE, TRUE).self

\* AlertManager.__init__: the manager it leaves.
__init__(arg_enabled, arg_cooldown, arg_reset, arg_rules, arg_backends, arg_store) ==
    _load_persisted_settings(Defaults(arg_enabled, arg_cooldown, arg_reset, arg_rules, arg_backends), arg_store)

\* The state after AlertManager.__init__.
Construct(arg_enabled, arg_cooldown, arg_reset, arg_rules, arg_backends, arg_store) ==
    /\ enabled = __init__(arg_enabled, arg_cooldown, arg_reset, arg_rules, arg_backends, arg_store).enabled
    /\ cooldown_seconds = __init__(arg_enabled, arg_cooldown, arg_reset, arg_rules, arg_backends, arg_store).cooldown_seconds
    /\ reset_delta = __init__(arg_enabled, arg_cooldown, arg_reset, arg_rules, arg_backends, arg_store).reset_delta
    /\ rules = __init__(arg_enabled, arg_cooldown, arg_reset, arg_rules, arg_backends, arg_store).rules
    /\ _custom_backends = arg_backends
    /\ backend_settings = __init__(arg_enabled, arg_cooldown, arg_reset, arg_rules, arg_backends, arg_store).backend_settings
    /\ backends = __init__(arg_enabled, arg_cooldown, arg_reset, arg_rules, arg_backends, arg_store).backends
    /\ _state = NoGpuData
    /\ clock = 0
    /\ call = NoCall
    /\ settings_store = arg_store
    /\ pre = __init__(arg_enabled, arg_cooldown, arg_reset, arg_rules, arg_backends, arg_store)
    /\ spawned = <<>>
    /\ raised = "none"
    /\ streak = NoStreak

\* The state after AlertManager.__init__ as a finished call: `pre` is the
\* manager before the store was read, call.payload the file it found.
Constructed(arg_enabled, arg_cooldown, arg_reset, arg_rules, arg_backends, arg_store) ==
    /\ enabled = __init__(arg_enabled, arg_cooldown, arg_reset, arg_rules, arg_backends, arg_store).enabled
    /\ cooldown_seconds = __init__(arg_enabled, arg_cooldown, arg_reset, arg_rules, arg_backends, arg_store).cooldown_seconds
    /\ reset_delta = __init__(arg_enabled, arg_cooldown, arg_reset, arg_rules, arg_backends, arg_store).reset_delta
    /\ rules = __init__(arg_enabled, arg_cooldown, arg_reset, arg_rules, arg_backends, arg_store).rules
    /\ _custom_backends = arg_backends
    /\ backend_settings = __init__(arg_enabled, arg_cooldown, arg_reset, arg_rules, arg_backends, arg_store).backend_settings
    /\ backends = __init__(arg_enabled, arg_cooldown, arg_reset, arg_rules, arg_backends, arg_store).backends
    /\ _state = NoGpuData
    /\ clock = 0
    /\ call = [NoCall EXCEPT !.op = "construct", !.payload = IF arg_store = None THEN NoPayload ELSE arg_store[1]]
    /\ settings_store = arg_store
    /\ pre = Defaults(arg_enabled, arg_cooldown, arg_reset, arg_rules, arg_backends)
    /\ spawned = <<>>
    /\ raised = "none"
    /\ streak = NoStreak

\* No thread is inside a handler.
NoThreads == [evaluate |-> [pc |-> "idle"], update_settings |-> [pc |-> "idle"]]

\* The runtime of the tests: tasks run inline, one thread, the lock free.
\* A process that runs no hub.
\* No simulated disconnect has been asked for.
NoDisconnects == _simulated_offline_gpus = {} /\ disconnects = <<>>

NoHub ==
    /\ node_status = <<>> /\ node_cache = <<>> /\ hub_time = 0
    /\ hub_call = <<>> /\ hub_pre = <<>> /\ view = <<>>
    /\ polls = <<>> /\ observed = <<>>
    /\ websocket_connections = {} /\ running = FALSE /\ loop = <<>> /\ cycle = <<>> /\ reachable = {} /\ loop_tasks = 0

TestRuntime == eventlet = "inline" /\ pool = <<>> /\ _lock = "free" /\ threads = NoThreads

\* The call returns to its caller: the record of the finished call is dropped.
Return ==
    /\ call.op # "idle"
    /\ call' = [NoCall EXCEPT !.streak = streak]
    /\ pre' = Manager
    /\ spawned' = <<>>
    /\ raised' = "none"
    /\ UNCHANGED <<settings, _custom_backends, settings_store, _state, clock, streak, pool, concurrency>>
    /\ UNCHANGED <<hub_vars, gpu_vars>>

--------------------------------------------------------------------------
(* SpecEval: one GPU evaluated over the readings and times of the tests,   *)
(* for every constructor configuration.                                    *)

InitEval ==
    \E e \in BOOLEAN, c \in {0, 60}, g \in {None, Some(5)}, t \in {0, 80}, d \in {None, Some(5)}, m \in {0, 80}, b \in {Some(<<>>), Some(<<DummyBackend>>)} :
        Construct(e, c, g, <<AlertRule("temperature", t, d), AlertRule("memory_percent", m, None)>>, b, None) /\ TestRuntime /\ NoHub /\ NoDisconnects

NextEval ==
    \/ call.op = "idle" /\ \E gpu_data \in GpuData({"0"}, MetricsSet), timestamp \in Times : Evaluate("node-1", gpu_data, timestamp)
    \/ Return

SpecEval == InitEval /\ [][NextEval]_vars

--------------------------------------------------------------------------
(* Spec: the settings API next to evaluation, for the manager of the       *)
(* tests (temperature 80 / reset 5, cooldown 60); the second rule is off.  *)

\* The most keys a settings payload carries, and the most entries of its
\* "rules" list.
MaxPayloadFields == 2
MaxRuleEntries == 2

\* Rule entries: a new threshold, a threshold that disables the rule, a
\* rejected one, and a rule the manager does not know.
RuleEntries == {Dict([name |-> "temperature", threshold |-> Some(75)]), Dict([name |-> "temperature", threshold |-> Some(0)]), Dict([name |-> "temperature", threshold |-> Some(-5)]), Dict([name |-> "fan_speed", threshold |-> Some(50)])}

DiscordConfig == Dict([webhook_url |-> "https://discord.example/hook"])
TelegramTokenOnly == Dict([bot_token |-> "only-token"])

\* The values a payload may carry under a key: accepted and rejected ones.
FieldValues(key) ==
    CASE key = "enabled" -> {FALSE, TRUE}
      [] key = "cooldown_seconds" -> {Some(10), Some(-1)}
      [] key = "reset_delta" -> {None, Some(-1)}
      [] key = "rules" -> {List(entries) : entries \in UNION {[1..n -> RuleEntries] : n \in 1..MaxRuleEntries}}
      [] key = "backends" -> {Null, Dict([discord |-> DiscordConfig]), Dict([telegram |-> TelegramTokenOnly])}

FieldNames == {"enabled", "cooldown_seconds", "reset_delta", "rules", "backends"}

RECURSIVE ItemsOver(_)
ItemsOver(keys) ==
    IF keys = {} THEN {EmptyDict}
    ELSE LET key == CHOOSE k \in keys : TRUE
         IN  {(key :> value) @@ rest : value \in FieldValues(key), rest \in ItemsOver(keys \ {key})}

Payloads == {Null} \cup {Dict(items) : items \in UNION {ItemsOver(keys) : keys \in {k \in SUBSET FieldNames : Cardinality(k) <= MaxPayloadFields}}}

Hot == [temperature |-> Some(90), memory_used |-> Some(90), memory_total |-> Some(100)]
Cool == [temperature |-> Some(70), memory_used |-> Some(90), memory_total |-> Some(0)]

Init ==
    \E b \in {None, Some(<<DummyBackend>>)}, store \in {None} :
        Construct(TRUE, 60, Some(5), <<AlertRule("temperature", 80, Some(5)), AlertRule("memory_percent", 0, None)>>, b, store) /\ TestRuntime /\ NoHub /\ NoDisconnects

Next ==
    \/ call.op = "idle" /\ \E gpu_data \in GpuData({"0"}, {Hot, Cool}), timestamp \in {0, 5} : Evaluate("node-1", gpu_data, timestamp)
    \/ call.op = "idle" /\ \E saved \in BOOLEAN, truncated \in BOOLEAN, payload \in Payloads : UpdateSettings(payload, saved, truncated)
    \/ Return

Spec == Init /\ [][Next]_vars

--------------------------------------------------------------------------
(* SpecBatch: two GPUs of one node evaluated together.                     *)

BatchMetrics == {[temperature |-> t, memory_used |-> m.memory_used, memory_total |-> m.memory_total] : t \in {None, Some(70), Some(90)}, m \in MemoryReadings}

InitBatch ==
    \E c \in {0, 60}, m \in {0, 80} :
        Construct(TRUE, c, Some(5), <<AlertRule("temperature", 80, Some(5)), AlertRule("memory_percent", m, None)>>, Some(<<DummyBackend>>), None) /\ TestRuntime /\ NoHub /\ NoDisconnects

NextBatch ==
    \/ call.op = "idle" /\ \E gpu_data \in GpuData({"0", "1"}, BatchMetrics), timestamp \in {0, 10, 65} : Evaluate("node-1", gpu_data, timestamp)
    \/ Return

SpecBatch == InitBatch /\ [][NextBatch]_vars

\* ---------------------------------------------------------------------
\* Two nodes with two GPUs each evaluated by one manager, the memory rule
\* enabled or disabled (threshold 0).
\* ---------------------------------------------------------------------

\* evaluate(node_name, ...): the node names the callers pass.
EvaluatedNodes == {"node-1", "node-2"}

InitNodes ==
    \E c \in {0, 60}, m \in {0, 80} :
        Construct(TRUE, c, Some(5), <<AlertRule("temperature", 80, Some(5)), AlertRule("memory_percent", m, None)>>, Some(<<DummyBackend>>), None) /\ TestRuntime /\ NoHub /\ NoDisconnects

NextNodes ==
    \/ call.op = "idle" /\ \E node_name \in EvaluatedNodes, gpu_data \in GpuData({"0", "1"}, {Hot, Cool}) : Evaluate(node_name, gpu_data, 0)
    \/ Return

SpecNodes == InitNodes /\ [][NextNodes]_vars


--------------------------------------------------------------------------
(* SpecStore: a manager with a settings store. The file the constructor    *)
(* finds is absent, unreadable, or any JSON document; updates save with    *)
(* success or failure.                                                     *)

TestRules == <<AlertRule("temperature", 80, Some(5)), AlertRule("memory_percent", 0, None)>>

\* Documents a store may hold: written by an earlier run
\* (test_persist_settings_round_trip), or that update_settings would reject
\* at their first, second or last field.
StoredFiles ==
    {Null, Corrupt, Other, Dict(EmptyDict),
     Dict([cooldown_seconds |-> Some(45), rules |-> List(<<Dict([name |-> "temperature", threshold |-> Some(70)])>>)]),
     Dict([enabled |-> FALSE, cooldown_seconds |-> Some(-1)]),
     Dict([cooldown_seconds |-> Some(45), rules |-> List(<<Dict([name |-> "temperature", threshold |-> Some(70)]), Dict([name |-> "temperature", threshold |-> Some(-5)])>>)]),
     Dict([reset_delta |-> None, backends |-> Dict([telegram |-> TelegramTokenOnly])])}

DisabledTelegram == Dict([type |-> "telegram", enabled |-> FALSE])

StorePayloads ==
    {Dict(EmptyDict),
     Dict([cooldown_seconds |-> Some(45), rules |-> List(<<Dict([name |-> "temperature", threshold |-> Some(70)])>>)]),
     Dict([enabled |-> FALSE, reset_delta |-> None]),
     Dict([rules |-> List(<<Dict([name |-> "temperature", reset_delta |-> None]), Dict([name |-> "memory_percent", threshold |-> Some(90), reset_delta |-> Some(3)])>>)]),
     Dict([backends |-> Dict([discord |-> DiscordConfig])]),
     Dict([backends |-> List(<<DisabledTelegram, Dict([type |-> "discord", webhook_url |-> "https://discord.example/hook", id |-> "mine"])>>)]),
     Dict([enabled |-> FALSE, cooldown_seconds |-> Some(-1)])}

InitStore ==
    \E b \in {None, Some(<<DummyBackend>>)}, file \in StoredFiles :
        Constructed(TRUE, 60, Some(5), TestRules, b, Some(file)) /\ TestRuntime /\ NoHub /\ NoDisconnects

NextStore ==
    \/ call.op = "idle" /\ \E gpu_data \in GpuData({"0"}, {Hot}) : Evaluate("node-1", gpu_data, 0)
    \/ call.op = "idle" /\ \E saved \in BOOLEAN, truncated \in BOOLEAN, payload \in StorePayloads : UpdateSettings(payload, saved, truncated)
    \/ Return

SpecStore == InitStore /\ [][NextStore]_vars

\* ---------------------------------------------------------------------
\* Evaluations around the hysteresis band while the global and the rule's
\* reset_delta are changed through update_settings. No cooldown, so that
\* every confirmed recovery is notified.
\* ---------------------------------------------------------------------

\* Readings over the threshold of 80, inside the band of a reset delta of
\* 5 or 10, and below the band of 5.
BandMetrics == {[temperature |-> Some(t), memory_used |-> Some(90), memory_total |-> Some(100)] : t \in {72, 78, 90}}

ResetPayloads ==
    {Dict([reset_delta |-> None]), Dict([reset_delta |-> Some(2)]), Dict([reset_delta |-> Some(10)]),
     Dict([rules |-> List(<<Dict([name |-> "temperature", reset_delta |-> None])>>)]),
     Dict([rules |-> List(<<Dict([name |-> "temperature", reset_delta |-> Some(5)])>>)])}

InitReset ==
    \E d \in {None, Some(5)} :
        Construct(TRUE, 0, Some(5), <<AlertRule("temperature", 80, d), AlertRule("memory_percent", 0, None)>>, Some(<<DummyBackend>>), None) /\ TestRuntime /\ NoHub /\ NoDisconnects

NextReset ==
    \/ call.op = "idle" /\ \E gpu_data \in GpuData({"0"}, BandMetrics) : Evaluate("node-1", gpu_data, 0)
    \/ call.op = "idle" /\ \E payload \in ResetPayloads : UpdateSettings(payload, TRUE, FALSE)
    \/ Return

SpecReset == InitReset /\ [][NextReset]_vars

\* ---------------------------------------------------------------------
\* The channel list replaced through update_settings: complete, disabled
\* and incomplete channels in the list form and in the older
\* {"discord": .., "telegram": ..} form, with evaluations in between. The
\* constructor fixes no backends and there is no store.
\* ---------------------------------------------------------------------

DiscordEntry == Dict([type |-> "discord", webhook_url |-> "https://discord.example/hook", id |-> "mine"])
TelegramEntry == Dict([type |-> "telegram", bot_token |-> "token", chat_id |-> "chat"])
\* test_update_settings_requires_complete_telegram_config
TelegramWithoutChat == Dict([type |-> "telegram", bot_token |-> "token"])
DiscordWithoutUrl == Dict([enabled |-> TRUE])

ChannelPayloads ==
    {Dict([enabled |-> TRUE]),
     Dict([backends |-> Null]),
     Dict([backends |-> List(<<DiscordEntry>>)]),
     Dict([backends |-> List(<<TelegramEntry>>)]),
     Dict([backends |-> List(<<DiscordEntry, TelegramEntry>>)]),
     Dict([backends |-> List(<<DisabledTelegram, DiscordEntry>>)]),
     Dict([backends |-> List(<<DiscordEntry, TelegramWithoutChat>>)]),
     Dict([backends |-> Dict([discord |-> DiscordConfig])]),
     Dict([backends |-> Dict([telegram |-> TelegramTokenOnly])]),
     Dict([backends |-> Dict([discord |-> DiscordWithoutUrl])]),
     Dict([backends |-> Dict([discord |-> Null])])}

InitChannels ==
    Construct(TRUE, 0, Some(5), TestRules, None, None) /\ TestRuntime /\ NoHub /\ NoDisconnects

NextChannels ==
    \/ call.op = "idle" /\ \E gpu_data \in GpuData({"0"}, {Hot, Cool}) : Evaluate("node-1", gpu_data, 0)
    \/ call.op = "idle" /\ \E payload \in ChannelPayloads : UpdateSettings(payload, TRUE, FALSE)
    \/ Return

SpecChannels == InitChannels /\ [][NextChannels]_vars

--------------------------------------------------------------------------
(* send_test_notification, and the tasks that carry the sends.             *)

\* The synthetic message: no rule, the GPU id "test".
TestMessage == [event |-> "test", node_name |-> "node-1", gpu_id |-> "test", entries |-> <<>>]

\* A test notification that asks whether the evaluator is active.
send_test_if_active(self) == IF ~_is_active_locked(self) THEN [raised |-> "ValueError", dispatched |-> <<>>] ELSE [raised |-> "none", dispatched |-> <<TestMessage>>]

\* send_test_notification under the lock: what it raises, what it dispatches.
send_test_notification(self) == IF self.backends = <<>> THEN [raised |-> "ValueError", dispatched |-> <<>>] ELSE [raised |-> "none", dispatched |-> <<TestMessage>>]

SendTestNotification ==
    /\ call.op = "idle"
    /\ \E r \in {send_test_notification(Manager)} :
        /\ raised' = r.raised
        /\ spawned' = DispatchAll(Manager, r.dispatched, 1)
        /\ pool' = SpawnAll(pool, eventlet, DispatchAll(Manager, r.dispatched, 1), 1)
        /\ call' = [NoCall EXCEPT !.op = "send_test", !.timestamp = clock, !.dispatched = r.dispatched, !.streak = streak]
        /\ pre' = Manager
        /\ UNCHANGED <<settings, _custom_backends, settings_store, _state, clock, streak, concurrency>>
    /\ UNCHANGED <<hub_vars, gpu_vars>>

\* Channels by what their send does: raise on every call, take long or
\* never return, return at once.
FailingBackend == [name |-> "failing"]
SlowBackend == [name |-> "slow"]
HealthyBackend == [name |-> "healthy"]

\* ThreadPoolExecutor(max_workers=4)
max_workers == 4

Running(queue) == {i \in 1..Len(queue) : queue[i].status = "running"}

\* Whether task i may start. Tasks start in the order they were spawned:
\* the thread pool hands its queue to at most max_workers threads, the
\* hub runs green threads in spawn order and their sends go through
\* eventlet's tpool, whose size is above the number of tasks followed here.
CanStart(queue, build, i) ==
    /\ queue[i].status = "queued"
    /\ \A j \in 1..(i - 1) : queue[j].status # "queued"
    /\ build = "threadpool" => Cardinality(Running(queue)) < max_workers

\* _send_backend: the send returns, or raises and the exception is logged.
_send_backend(backend) == IF backend.name = "failing" THEN "failed" ELSE "sent"

manager_vars == <<settings, _custom_backends, settings_store, _state, clock, call, pre, spawned, raised, streak>>

Start(i) ==
    /\ i <= Len(pool)
    /\ CanStart(pool, eventlet, i)
    /\ pool' = [pool EXCEPT ![i].status = "running"]
    /\ UNCHANGED <<manager_vars, concurrency>>
    /\ UNCHANGED <<hub_vars, gpu_vars>>

\* backend.send returns or raises. A slow backend may return, or never.
Finish(i) ==
    /\ i <= Len(pool)
    /\ pool[i].status = "running"
    /\ pool' = [pool EXCEPT ![i].status = _send_backend(pool[i].backend)]
    /\ UNCHANGED <<manager_vars, concurrency>>
    /\ UNCHANGED <<hub_vars, gpu_vars>>

FinishPrompt(i) == Finish(i) /\ pool[i].backend.name # "slow"

\* The most send tasks the model follows.
MaxTasks == 8

InitDispatch ==
    \E e \in BOOLEAN, b \in {<<>>, <<FailingBackend, HealthyBackend>>, <<SlowBackend, HealthyBackend>>}, build \in {"threadpool", "greenlet"} :
        Construct(e, 0, Some(5), TestRules, Some(b), None) /\ eventlet = build /\ pool = <<>> /\ _lock = "free" /\ threads = NoThreads /\ NoHub /\ NoDisconnects

NextDispatch ==
    \/ call.op = "idle" /\ Len(pool) + Len(backends) <= MaxTasks /\ SendTestNotification
    \/ call.op = "idle" /\ Len(pool) + Len(backends) <= MaxTasks /\ \E gpu_data \in GpuData({"0"}, {Hot}) : Evaluate("node-1", gpu_data, 0)
    \/ \E i \in 1..MaxTasks : Start(i)
    \/ \E i \in 1..MaxTasks : Finish(i)
    \/ Return

\* Threads that can run do run; a send that is not slow returns or raises.
SpecDispatch == InitDispatch /\ [][NextDispatch]_vars /\ WF_vars(\E i \in 1..MaxTasks : Start(i)) /\ \A i \in 1..MaxTasks : WF_vars(FinishPrompt(i))

--------------------------------------------------------------------------
(* SpecLock: evaluate and update_settings on two threads, step by step.    *)
(* Each handler takes self._lock on entry and releases it on exit; what a  *)
(* thread holds between its steps is in threads.                           *)

\* A lock that lets every thread in.
always_acquire(lock) == TRUE

\* with self._lock: the thread goes on when no thread holds the lock.
can_acquire(lock) == lock = "free"

history == <<call, pre, spawned, raised, streak>>

\* evaluate: take the lock, read the clock, return at once when inactive.
EvalEnter(node_name, gpu_data, timestamp) ==
    /\ threads.evaluate.pc = "idle"
    /\ can_acquire(_lock)
    /\ timestamp >= clock
    /\ _lock' = "evaluate"
    /\ clock' = timestamp
    /\ threads' = [threads EXCEPT !.evaluate = [pc |-> IF _is_active_locked(Manager) THEN "loop" ELSE "exit", node_name |-> node_name, gpu_data |-> gpu_data,
                                                 timestamp |-> timestamp, i |-> 1, dispatched |-> <<>>, entry |-> Manager]]
    /\ UNCHANGED <<settings, _custom_backends, settings_store, _state, history, eventlet, pool>>
    /\ UNCHANGED <<hub_vars, gpu_vars>>

\* evaluate: one turn of the loop over gpu_data.items(), on the settings
\* and the state table as they are now.
EvalGpu ==
    /\ threads.evaluate.pc = "loop"
    /\ LET t == threads.evaluate
           gpu_id == GpuIds[t.i]
           r == IF gpu_id \in DOMAIN t.gpu_data
                THEN EvaluateGpu([_state |-> _state, dispatched |-> <<>>], Manager, t.node_name, gpu_id, t.gpu_data[gpu_id], t.timestamp)
                ELSE [_state |-> _state, dispatched |-> <<>>]
       IN  /\ _state' = r._state
           /\ pool' = SpawnAll(pool, eventlet, DispatchAll(Manager, r.dispatched, 1), 1)
           /\ threads' = [threads EXCEPT !.evaluate.i = t.i + 1, !.evaluate.dispatched = t.dispatched \o r.dispatched,
                                         !.evaluate.pc = IF t.i + 1 > Len(GpuIds) THEN "exit" ELSE "loop"]
    /\ UNCHANGED <<settings, _custom_backends, settings_store, clock, history, eventlet, _lock>>
    /\ UNCHANGED <<hub_vars, gpu_vars>>

\* evaluate: leave the with block.
EvalExit ==
    /\ threads.evaluate.pc = "exit"
    /\ _lock' = "free"
    /\ threads' = [threads EXCEPT !.evaluate = [pc |-> "idle"]]
    /\ UNCHANGED <<settings, _custom_backends, settings_store, _state, clock, history, eventlet, pool>>
    /\ UNCHANGED <<hub_vars, gpu_vars>>

\* update_settings: take the lock.
UpdEnter(payload) ==
    /\ threads.update_settings.pc = "idle"
    /\ can_acquire(_lock)
    /\ _lock' = "update_settings"
    /\ threads' = [threads EXCEPT !.update_settings = [pc |-> "apply", payload |-> payload, entry |-> Manager, raised |-> "none"]]
    /\ UNCHANGED <<settings, _custom_backends, settings_store, _state, clock, history, eventlet, pool>>
    /\ UNCHANGED <<hub_vars, gpu_vars>>

\* update_settings: the fields of the payload, up to the first invalid one.
UpdApply ==
    /\ threads.update_settings.pc = "apply"
    /\ \E a \in {ApplyPayload(Manager, threads.update_settings.payload)} :
        /\ enabled' = a.self.enabled
        /\ cooldown_seconds' = a.self.cooldown_seconds
        /\ reset_delta' = a.self.reset_delta
        /\ rules' = a.self.rules
        /\ backend_settings' = a.self.backend_settings
        /\ backends' = a.self.backends
        /\ threads' = [threads EXCEPT !.update_settings.pc = IF a.error THEN "exit" ELSE "clear",
                                      !.update_settings.raised = IF a.error THEN "ValueError" ELSE "none"]
    /\ UNCHANGED <<_custom_backends, settings_store, _state, clock, history, eventlet, pool, _lock>>
    /\ UNCHANGED <<hub_vars, gpu_vars>>

\* update_settings: self._state.clear(); this manager has no store to save to.
UpdClear ==
    /\ threads.update_settings.pc = "clear"
    /\ _state' = clear(_state)
    /\ threads' = [threads EXCEPT !.update_settings.pc = "exit"]
    /\ UNCHANGED <<settings, _custom_backends, settings_store, clock, history, eventlet, pool, _lock>>
    /\ UNCHANGED <<hub_vars, gpu_vars>>

\* update_settings: leave the with block.
UpdExit ==
    /\ threads.update_settings.pc = "exit"
    /\ _lock' = "free"
    /\ threads' = [threads EXCEPT !.update_settings = [pc |-> "idle"]]
    /\ UNCHANGED <<settings, _custom_backends, settings_store, _state, clock, history, eventlet, pool>>
    /\ UNCHANGED <<hub_vars, gpu_vars>>

LockTimes == {0, 65}

LockPayloads ==
    {Dict([cooldown_seconds |-> Some(10), rules |-> List(<<Dict([name |-> "temperature", threshold |-> Some(75)])>>)]),
     Dict([rules |-> List(<<Dict([name |-> "memory_percent", threshold |-> Some(80)])>>)]),
     Dict([enabled |-> FALSE, cooldown_seconds |-> Some(-1)])}

InitLock == Construct(TRUE, 60, Some(5), TestRules, Some(<<DummyBackend>>), None) /\ TestRuntime /\ NoHub /\ NoDisconnects

NextLock ==
    \/ \E gpu_data \in GpuData({"0", "1"}, {Hot, Cool}), timestamp \in LockTimes : EvalEnter("node-1", gpu_data, timestamp)
    \/ EvalGpu
    \/ EvalExit
    \/ \E payload \in LockPayloads : UpdEnter(payload)
    \/ UpdApply
    \/ UpdClear
    \/ UpdExit

SpecLock == InitLock /\ [][NextLock]_vars

--------------------------------------------------------------------------
(* HubMonitor: the records and the cache of the configured nodes, one poll *)
(* of an agent, and the view aggregate_data builds from a round of polls.  *)

\* The nodes the hub is configured with; node_status and node_cache are
\* keyed by url.
HubNodes == <<[url |-> "http://node1:1312", name |-> "node1"], [url |-> "http://node2:1312", name |-> "node2"]>>
Urls == {HubNodes[i].url : i \in 1..Len(HubNodes)}

\* config.CACHE_OFFLINE_DURATION
CACHE_OFFLINE_DURATION == 300

\* The most failures in a row the model counts for a node.
MaxErrors == 2

\* HubMonitor.__init__
HubMonitor(nodes) ==
    [node_status |-> [url \in {nodes[i].url : i \in 1..Len(nodes)} |-> [status |-> "unknown", last_seen |-> None, error_count |-> 0, last_error |-> None]],
     node_cache |-> [url \in {} |-> None]]

Hub == [node_status |-> node_status, node_cache |-> node_cache]

\* What an agent answers with HTTP 200: get_agent_data's document, its error
\* document, or a JSON object whose 'gpus' is not a map (gpus_null: the
\* key is there and len() of its value raises TypeError).
AgentPayloads ==
    {[status |-> "online", gpus |-> {"0", "1"}, gpus_null |-> FALSE, processes |-> {"train"}, error |-> None],
     [status |-> "online", gpus |-> {"0"}, gpus_null |-> FALSE, processes |-> {}, error |-> None],
     [status |-> "error", gpus |-> {}, gpus_null |-> FALSE, processes |-> {}, error |-> Some("collect")],
     [status |-> "online", gpus |-> {}, gpus_null |-> TRUE, processes |-> {}, error |-> None]}

\* How the request of poll_agent ends: a document, requests' Timeout, its
\* ConnectionError, or any other exception (an HTTP error status, a body
\* that is not JSON).
Received(data) == [kind |-> "ok", data |-> data, message |-> None]
TimedOut == [kind |-> "timeout", data |-> None, message |-> Some("Timeout")]
Refused == [kind |-> "refused", data |-> None, message |-> Some("Connection refused")]
Failed == [kind |-> "error", data |-> None, message |-> Some("500 Server Error")]
Failures == {TimedOut, Refused, Failed}
Outcomes == {Received(data) : data \in AgentPayloads} \cup Failures

\* data['node_config'] = {...}; a live entry has no cache_age.
WithConfig(data, node) == [status |-> data.status, gpus |-> data.gpus, gpus_null |-> data.gpus_null, processes |-> data.processes, error |-> data.error, node_config |-> node.url, cache_age |-> None]

\* self.node_cache[node_url] = {...}
Put(cache, url, entry) == [u \in DOMAIN cache \cup {url} |-> IF u = url THEN entry ELSE cache[u]]

\* The status the handlers of poll_agent store.
status_of(outcome) == IF outcome.kind = "ok" THEN "online" ELSE IF outcome.kind = "timeout" THEN "timeout" ELSE IF outcome.kind = "refused" THEN "offline" ELSE "error"

\* A poll that leaves error_count and last_error alone when it succeeds.
poll_agent_keeps_errors(self, node, outcome, now) ==
    IF outcome.kind = "ok"
    THEN [node_status |-> [self.node_status EXCEPT ![node.url] = [status |-> status_of(outcome), last_seen |-> Some(now), error_count |-> @.error_count, last_error |-> @.last_error]],
          node_cache |-> Put(self.node_cache, node.url, [data |-> WithConfig(outcome.data, node), cached_at |-> now]),
          data |-> Some(WithConfig(outcome.data, node))]
    ELSE [node_status |-> [self.node_status EXCEPT ![node.url] = [status |-> status_of(outcome), last_seen |-> @.last_seen, error_count |-> @.error_count + 1, last_error |-> outcome.message]],
          node_cache |-> self.node_cache,
          data |-> None]

\* A poll that drops the node's cache entry and last_seen when it fails.
poll_agent_forgetful(self, node, outcome, now) ==
    IF outcome.kind = "ok"
    THEN [node_status |-> [self.node_status EXCEPT ![node.url] = [status |-> status_of(outcome), last_seen |-> Some(now), error_count |-> 0, last_error |-> None]],
          node_cache |-> Put(self.node_cache, node.url, [data |-> WithConfig(outcome.data, node), cached_at |-> now]),
          data |-> Some(WithConfig(outcome.data, node))]
    ELSE [node_status |-> [self.node_status EXCEPT ![node.url] = [status |-> status_of(outcome), last_seen |-> None, error_count |-> @.error_count + 1, last_error |-> outcome.message]],
          node_cache |-> [u \in DOMAIN self.node_cache \ {node.url} |-> self.node_cache[u]],
          data |-> None]

\* A poll that gives a node up after MaxErrors failures in a row.
poll_agent_gives_up(self, node, outcome, now) ==
    IF self.node_status[node.url].error_count >= MaxErrors
    THEN [node_status |-> self.node_status, node_cache |-> self.node_cache, data |-> None]
    ELSE IF outcome.kind = "ok"
    THEN [node_status |-> [self.node_status EXCEPT ![node.url] = [status |-> status_of(outcome), last_seen |-> Some(now), error_count |-> 0, last_error |-> None]],
          node_cache |-> Put(self.node_cache, node.url, [data |-> WithConfig(outcome.data, node), cached_at |-> now]),
          data |-> Some(WithConfig(outcome.data, node))]
    ELSE [node_status |-> [self.node_status EXCEPT ![node.url] = [status |-> status_of(outcome), last_seen |-> @.last_seen, error_count |-> @.error_count + 1, last_error |-> outcome.message]],
          node_cache |-> self.node_cache,
          data |-> None]

\* A poll whose failure stamps the stored snapshot with the time of the poll.
poll_agent_touches_cache(self, node, outcome, now) ==
    IF outcome.kind = "ok"
    THEN [node_status |-> [self.node_status EXCEPT ![node.url] = [status |-> status_of(outcome), last_seen |-> Some(now), error_count |-> 0, last_error |-> None]],
          node_cache |-> Put(self.node_cache, node.url, [data |-> WithConfig(outcome.data, node), cached_at |-> now]),
          data |-> Some(WithConfig(outcome.data, node))]
    ELSE [node_status |-> [self.node_status EXCEPT ![node.url] = [status |-> status_of(outcome), last_seen |-> @.last_seen, error_count |-> @.error_count + 1, last_error |-> outcome.message]],
          node_cache |-> IF node.url \in DOMAIN self.node_cache THEN [self.node_cache EXCEPT ![node.url].cached_at = now] ELSE self.node_cache,
          data |-> None]

\* poll_agent: the hub after the poll and the data part of the tuple returned.
poll_agent(self, node, outcome, now) ==
    IF outcome.kind = "ok"
    THEN [node_status |-> [self.node_status EXCEPT ![node.url] = [status |-> status_of(outcome), last_seen |-> Some(now), error_count |-> 0, last_error |-> None]],
          node_cache |-> Put(self.node_cache, node.url, [data |-> WithConfig(outcome.data, node), cached_at |-> now]),
          data |-> Some(WithConfig(outcome.data, node))]
    ELSE [node_status |-> [self.node_status EXCEPT ![node.url] = [status |-> status_of(outcome), last_seen |-> @.last_seen, error_count |-> @.error_count + 1, last_error |-> outcome.message]],
          node_cache |-> self.node_cache,
          data |-> None]

\* A cache that still serves a snapshot of exactly the limit's age.
get_cached_data_inclusive(self, node_url, now) ==
    IF node_url \notin DOMAIN self.node_cache THEN None
    ELSE IF now - self.node_cache[node_url].cached_at <= CACHE_OFFLINE_DURATION
         THEN Some([self.node_cache[node_url].data EXCEPT !.status = "offline", !.cache_age = Some(now - self.node_cache[node_url].cached_at)])
         ELSE None

\* get_cached_data
get_cached_data(self, node_url, now) ==
    IF node_url \notin DOMAIN self.node_cache THEN None
    ELSE IF now - self.node_cache[node_url].cached_at < CACHE_OFFLINE_DURATION
         THEN Some([self.node_cache[node_url].data EXCEPT !.status = "offline", !.cache_age = Some(now - self.node_cache[node_url].cached_at)])
         ELSE None

\* The entry aggregate_data writes when there is neither data nor cache.
Placeholder(self, node) == [status |-> self.node_status[node.url].status, gpus |-> {}, gpus_null |-> FALSE, processes |-> {}, error |-> self.node_status[node.url].last_error, node_config |-> node.url, cache_age |-> None]

EmptyView == [nodes |-> [url \in {} |-> None], online_nodes |-> 0, offline_nodes |-> 0, total_gpus |-> 0]

\* The body of the loop over the finished polls, for one node. The entry
\* and the node's count are written before len(...get('gpus')) is taken:
\* when that raises, the except clause counts the node as offline as well.
AggregateNode(acc, self, node, data, now) ==
    IF data # None
    THEN [nodes |-> Put(acc.nodes, node.url, data[1]), online_nodes |-> acc.online_nodes + 1,
          offline_nodes |-> IF data[1].gpus_null THEN acc.offline_nodes + 1 ELSE acc.offline_nodes,
          total_gpus |-> IF data[1].gpus_null THEN acc.total_gpus ELSE acc.total_gpus + Cardinality(data[1].gpus)]
    ELSE LET cached_data == get_cached_data(self, node.url, now)
         IN  IF cached_data # None
             THEN [nodes |-> Put(acc.nodes, node.url, cached_data[1]), online_nodes |-> acc.online_nodes,
                   offline_nodes |-> IF cached_data[1].gpus_null THEN acc.offline_nodes + 2 ELSE acc.offline_nodes + 1,
                   total_gpus |-> IF cached_data[1].gpus_null THEN acc.total_gpus ELSE acc.total_gpus + Cardinality(cached_data[1].gpus)]
             ELSE [nodes |-> Put(acc.nodes, node.url, Placeholder(self, node)), online_nodes |-> acc.online_nodes, offline_nodes |-> acc.offline_nodes + 1, total_gpus |-> acc.total_gpus]

\* A round that a failed poll ends: the nodes after it are neither polled
\* nor entered in the view.
RECURSIVE poll_until_failure(_, _, _, _, _)
poll_until_failure(acc, i, nodes, outcomes, now) ==
    IF i > Len(nodes) THEN acc
    ELSE LET r == poll_agent(acc.self, nodes[i], outcomes[i], now)
             next == [self |-> [node_status |-> r.node_status, node_cache |-> r.node_cache], aggregated |-> AggregateNode(acc.aggregated, r, nodes[i], r.data, now)]
         IN  IF r.data = None THEN next ELSE poll_until_failure(next, i + 1, nodes, outcomes, now)

\* The polls of a round, one per configured node, and the loop over their
\* results. With one record per url the order the polls finish in does not
\* show; they are taken in the order of self.nodes.
RECURSIVE PollAll(_, _, _, _, _)
PollAll(acc, i, nodes, outcomes, now) ==
    IF i > Len(nodes) THEN acc
    ELSE LET r == poll_agent(acc.self, nodes[i], outcomes[i], now)
         IN  PollAll([self |-> [node_status |-> r.node_status, node_cache |-> r.node_cache], aggregated |-> AggregateNode(acc.aggregated, r, nodes[i], r.data, now)], i + 1, nodes, outcomes, now)

\* aggregate_data: the hub after the round and the dict returned.
aggregate_data(self, nodes, outcomes, now) ==
    LET r == PollAll([self |-> self, aggregated |-> EmptyView], 1, nodes, outcomes, now)
    IN  [self |-> r.self,
         aggregated |-> [nodes |-> r.aggregated.nodes,
                         summary |-> [total_nodes |-> Len(nodes), online_nodes |-> r.aggregated.online_nodes, offline_nodes |-> r.aggregated.offline_nodes, total_gpus |-> r.aggregated.total_gpus,
                                      node_status |-> [n \in {nodes[i].name : i \in 1..Len(nodes)} |-> LET node == CHOOSE m \in {nodes[i] : i \in 1..Len(nodes)} : m.name = n
                                                                                                    IN  [url |-> node.url, status |-> r.self.node_status[node.url].status, last_seen |-> r.self.node_status[node.url].last_seen, error_count |-> r.self.node_status[node.url].error_count]]]]]

\* The latest time on the hub's clock.
MaxHubTime == 300

\* Times around the cache's age limit.
HubTimes == {0, 1} \cup (CACHE_OFFLINE_DURATION..MaxHubTime)

\* How the polls of the i-th node may end: any way for the first node, with
\* one document or a refused connection for the others.
OutcomesOf(i) == IF i = 1 THEN Outcomes ELSE {Received([status |-> "online", gpus |-> {"0"}, gpus_null |-> FALSE, processes |-> {}, error |-> None]), Refused}

hub_clients == <<polls, observed, websocket_connections, running, loop, cycle, reachable, loop_tasks>>

\* The alert manager of a hub process stays as constructed.
AlertsIdle == Construct(TRUE, 60, Some(5), TestRules, None, None) /\ TestRuntime

\* time.time() moves on.
HubTick(t) ==
    /\ t > hub_time
    /\ hub_time' = t
    /\ UNCHANGED <<node_status, node_cache, hub_call, hub_pre, view, hub_clients, alert_vars, gpu_vars>>

\* One call of aggregate_data; outcomes[i] is how the poll of the i-th
\* node ends.
AggregateData(outcomes) ==
    /\ \A i \in 1..Len(HubNodes) : outcomes[i].kind # "ok" => node_status[HubNodes[i].url].error_count < MaxErrors
    /\ \E r \in {aggregate_data(Hub, HubNodes, outcomes, hub_time)} :
        /\ node_status' = r.self.node_status
        /\ node_cache' = r.self.node_cache
        /\ hub_call' = [op |-> "aggregate_data", outcomes |-> outcomes, now |-> hub_time]
        /\ hub_pre' = Hub
        /\ view' = r.aggregated
    /\ UNCHANGED <<hub_time, hub_clients, alert_vars, gpu_vars>>

HubIdle == polls = <<>> /\ observed = <<>> /\ websocket_connections = {} /\ running = FALSE /\ loop = <<>> /\ cycle = <<>> /\ reachable = {} /\ loop_tasks = 0

InitHub ==
    /\ AlertsIdle /\ NoDisconnects
    /\ node_status = HubMonitor(HubNodes).node_status
    /\ node_cache = HubMonitor(HubNodes).node_cache
    /\ hub_time = 0
    /\ hub_call = [op |-> "__init__", outcomes |-> <<>>, now |-> 0]
    /\ hub_pre = HubMonitor(HubNodes)
    /\ view = <<>>
    /\ HubIdle

NextHub ==
    \/ \E t \in HubTimes : HubTick(t)
    \/ \E outcomes \in {o \in [1..Len(HubNodes) -> Outcomes] : \A i \in 1..Len(HubNodes) : o[i] \in OutcomesOf(i)} : AggregateData(outcomes)

SpecHub == InitHub /\ [][NextHub]_vars

--------------------------------------------------------------------------
(* SpecPolls: poll_agent statement by statement. The polls of a round run  *)
(* on the threads of self.executor and rounds of different requests run    *)
(* side by side; nothing orders their writes to node_status[node_url] or   *)
(* the reads of summary.node_status.                                       *)

\* The threads that poll.
\* The rounds that may have run before: none, one in which every node
\* answered, one in which every node failed.
EarlierRounds == {<<>>} \cup {[i \in 1..Len(HubNodes) |-> o] : o \in {Received([status |-> "online", gpus |-> {"0"}, gpus_null |-> FALSE, processes |-> {}, error |-> None]), Refused}}

PollThreads == {1, 2}

NoPolls == [threads |-> [t \in PollThreads |-> [pc |-> "idle"]], failed |-> [url \in Urls |-> 0]]

\* A thread takes up the poll of the i-th node and the request ends. Each
\* thread is followed through one poll.
StartPoll(t, i, outcome) ==
    /\ polls.threads[t].pc = "idle"
    /\ polls' = [polls EXCEPT !.threads[t] = [pc |-> "status", node |-> i, outcome |-> outcome, count |-> 0]]
    /\ UNCHANGED <<node_status, node_cache, hub_time, hub_call, hub_pre, view, observed, websocket_connections, running, loop, cycle, reachable, loop_tasks, alert_vars, gpu_vars>>

\* The next statement of the poll of thread t: the four assignments and
\* the cache entry after a receipt; after a failure the status, the read and
\* the write of error_count += 1, and last_error.
PollStep(t) ==
    /\ polls.threads[t].pc \notin {"idle", "done"}
    /\ LET p == polls.threads[t]
           url == HubNodes[p.node].url
           ok == p.outcome.kind = "ok"
       IN  /\ node_status' =
                IF p.pc = "status" THEN [node_status EXCEPT ![url].status = status_of(p.outcome)]
                ELSE IF p.pc = "last_seen" THEN [node_status EXCEPT ![url].last_seen = Some(hub_time)]
                ELSE IF p.pc = "error_count" THEN [node_status EXCEPT ![url].error_count = 0]
                ELSE IF p.pc = "write_count" THEN [node_status EXCEPT ![url].error_count = p.count + 1]
                ELSE IF p.pc = "last_error" THEN [node_status EXCEPT ![url].last_error = p.outcome.message]
                ELSE node_status
           /\ node_cache' = IF p.pc = "cache" THEN Put(node_cache, url, [data |-> WithConfig(p.outcome.data, HubNodes[p.node]), cached_at |-> hub_time]) ELSE node_cache
           /\ polls' =
                IF p.pc = "status" THEN [polls EXCEPT !.threads[t].pc = IF ok THEN "last_seen" ELSE "read_count"]
                ELSE IF p.pc = "last_seen" THEN [polls EXCEPT !.threads[t].pc = "error_count"]
                ELSE IF p.pc = "error_count" THEN [polls EXCEPT !.threads[t].pc = "last_error"]
                ELSE IF p.pc = "read_count" THEN [polls EXCEPT !.threads[t].pc = "write_count", !.threads[t].count = node_status[url].error_count]
                ELSE IF p.pc = "write_count" THEN [polls EXCEPT !.threads[t].pc = "last_error"]
                ELSE IF p.pc = "last_error" /\ ok THEN [polls EXCEPT !.threads[t].pc = "cache"]
                ELSE IF p.pc = "last_error" THEN [polls EXCEPT !.threads[t] = [pc |-> "done"], !.failed[url] = @ + 1]
                ELSE [polls EXCEPT !.threads[t] = [pc |-> "done"], !.failed[url] = 0]
    /\ UNCHANGED <<hub_time, hub_call, hub_pre, view, observed, websocket_connections, running, loop, cycle, reachable, loop_tasks, alert_vars, gpu_vars>>

\* A reader takes the record of a node as it is now.
Observe(url) ==
    /\ observed' = <<node_status[url]>>
    /\ UNCHANGED <<node_status, node_cache, hub_time, hub_call, hub_pre, view, polls, websocket_connections, running, loop, cycle, reachable, loop_tasks, alert_vars, gpu_vars>>

\* The hub as constructed, or after an earlier round that ran alone.
InitPolls ==
    /\ AlertsIdle /\ NoDisconnects
    /\ \E earlier \in EarlierRounds :
        /\ hub_pre = IF earlier = <<>> THEN HubMonitor(HubNodes) ELSE aggregate_data(HubMonitor(HubNodes), HubNodes, earlier, 0).self
        /\ node_status = hub_pre.node_status
        /\ node_cache = hub_pre.node_cache
        /\ hub_call = [op |-> "__init__", outcomes |-> earlier, now |-> 0]
    /\ hub_time = 1
    /\ view = <<>>
    /\ polls = [NoPolls EXCEPT !.failed = [url \in Urls |-> node_status[url].error_count]] /\ observed = <<>>
    /\ websocket_connections = {} /\ running = FALSE /\ loop = <<>> /\ cycle = <<>> /\ reachable = {} /\ loop_tasks = 0

NextPolls ==
    \/ \E t \in PollThreads, i \in 1..Len(HubNodes) : \E outcome \in OutcomesOf(2) \cup {TimedOut} : StartPoll(t, i, outcome)
    \/ \E t \in PollThreads : PollStep(t)
    \/ \E url \in Urls : Observe(url)

SpecPolls == InitPolls /\ [][NextPolls]_vars

\* ---------------------------------------------------------------------
\* Rounds of aggregate_data against nodes that come back. reachable holds
\* the nodes that answer from now on; a node outside it fails, for at most
\* MaxErrors rounds in a row.
\* ---------------------------------------------------------------------

\* The node answers again and keeps answering.
Recover(url) ==
    /\ url \notin reachable
    /\ reachable' = reachable \cup {url}
    /\ UNCHANGED <<node_status, node_cache, hub_time, hub_call, hub_pre, view, polls, observed, websocket_connections, running, loop, cycle, loop_tasks, alert_vars, gpu_vars>>

\* A round in which exactly the reachable nodes answer.
Refresh(outcomes) ==
    /\ \A i \in 1..Len(HubNodes) : outcomes[i].kind = "ok" <=> HubNodes[i].url \in reachable
    /\ AggregateData(outcomes)

InitRefresh == InitHub

NextRefresh ==
    \/ \E url \in Urls : Recover(url)
    \/ \E outcomes \in {o \in [1..Len(HubNodes) -> Outcomes] : \A i \in 1..Len(HubNodes) : o[i] \in OutcomesOf(i)} : Refresh(outcomes)

\* The hub keeps refreshing, and no outage lasts for ever.
SpecRefresh ==
    /\ InitRefresh /\ [][NextRefresh]_vars
    /\ WF_vars(\E outcomes \in {o \in [1..Len(HubNodes) -> Outcomes] : \A i \in 1..Len(HubNodes) : o[i] \in OutcomesOf(i)} : Refresh(outcomes))
    /\ \A url \in Urls : WF_vars(Recover(url))

\* ---------------------------------------------------------------------
\* hub_loop and websocket_endpoint: the broadcast task and the handlers of
\* the dashboard clients, which run on one event loop and give way to each
\* other at every await. loop.pc is the await at which hub_loop stands.
\* ---------------------------------------------------------------------

Clients == {"c1", "c2", "c3"}

\* The cluster view of the hub: the live snapshot of an online node, the
\* cached one of a node that is not online while it is young enough, else
\* the placeholder.
get_cluster_data(self, now) ==
    [nodes |-> [url \in Urls |->
        LET node == CHOOSE n \in {HubNodes[i] : i \in 1..Len(HubNodes)} : n.url = url
        IN  IF self.node_status[url].status = "online" /\ url \in DOMAIN self.node_cache THEN self.node_cache[url].data
            ELSE IF get_cached_data(self, url, now) # None THEN get_cached_data(self, url, now)[1]
            ELSE Placeholder(self, node)]]

NoLoop == [pc |-> "off", cluster_data |-> None, used |-> 0, todo |-> {}, to |-> None, disconnected |-> {}]
\* What is kept about the cycle under way: the websockets registered since
\* it began, those send_text was called on, whether it is over and the
\* error that ended it; and the websockets whose push failed in an
\* earlier cycle, and whether an earlier cycle found no subscriber.
NoCycle == [whole |-> {}, sent_to |-> {}, ended |-> FALSE, error |-> None, dropped |-> {}, idle |-> FALSE]

\* The step of `for websocket in connections` up to the next await. The
\* iterator of a set raises RuntimeError when the set's size is not the
\* one it had when the iteration began; the error leaves the for loop and
\* is caught by the except clause of the while loop, before
\* connections -= disconnected. The result's loop.pc is "send" when a
\* further websocket is to be taken from loop.todo.
hub_loop_next(lp, connections, cyc) ==
    IF Cardinality(connections) # lp.used
    THEN [loop |-> [lp EXCEPT !.pc = "sleep", !.to = None, !.todo = {}], connections |-> {connections},
          cycle |-> [cyc EXCEPT !.ended = TRUE, !.error = Some("Set changed size during iteration")]]
    ELSE IF lp.todo = {}
    THEN [loop |-> [lp EXCEPT !.pc = "sleep", !.to = None], connections |-> {connections \ lp.disconnected},
          cycle |-> [cyc EXCEPT !.ended = TRUE]]
    ELSE [loop |-> [lp EXCEPT !.pc = "send"], connections |-> {connections}, cycle |-> cyc]

\* The loop goes on from r: it sleeps, or it calls send_text on one of
\* the websockets the iteration has not reached.
Proceed(r) ==
    /\ websocket_connections' = CHOOSE c \in r.connections : TRUE
    /\ IF r.loop.pc = "send"
       THEN \E websocket \in r.loop.todo :
                /\ loop' = [r.loop EXCEPT !.to = Some(websocket), !.todo = @ \ {websocket}]
                /\ cycle' = [r.cycle EXCEPT !.sent_to = @ \cup {websocket}]
       ELSE loop' = r.loop /\ cycle' = r.cycle

\* A handler that starts a loop for every client.
start_loop_always(is_running) == TRUE

\* if not hub.running
start_loop(is_running) == ~is_running

\* websocket_endpoint up to receive_text: the client is registered and the
\* first client starts hub_loop. An entry added while hub_loop iterates
\* over the set lies ahead of the iterator's position or behind it. The
\* websocket is a new object: none that hub_loop holds in disconnected.
Connect(c) ==
    /\ c \notin websocket_connections /\ c \notin loop.disconnected
    /\ websocket_connections' = websocket_connections \cup {c}
    /\ running' = (running \/ start_loop(running))
    /\ loop_tasks' = IF start_loop(running) THEN loop_tasks + 1 ELSE loop_tasks
    /\ \E ahead \in BOOLEAN :
        loop' = IF start_loop(running) THEN [NoLoop EXCEPT !.pc = "fetch"]
                ELSE IF loop.pc = "send" /\ ahead THEN [loop EXCEPT !.todo = @ \cup {c}]
                ELSE loop
    /\ cycle' = [cycle EXCEPT !.dropped = @ \ {c}]
    /\ UNCHANGED <<view, node_status, node_cache, hub_time, hub_call, hub_pre, polls, observed, reachable, alert_vars, gpu_vars>>

\* receive_text raises for a client that went away; finally: discard.
Disconnect(c) ==
    /\ c \in websocket_connections
    /\ websocket_connections' = websocket_connections \ {c}
    /\ loop' = [loop EXCEPT !.todo = @ \ {c}]
    /\ cycle' = IF cycle.ended THEN cycle ELSE [cycle EXCEPT !.whole = @ \ {c}]
    /\ UNCHANGED <<view, running, node_status, node_cache, hub_time, hub_call, hub_pre, polls, observed, reachable, loop_tasks, alert_vars, gpu_vars>>

\* A loop that goes on only while there are subscribers.
while_subscribed(is_running, connections) == is_running /\ connections # {}

\* while hub.running
while_running(is_running, connections) == is_running

\* asyncio.sleep(0.5) is over; while hub.running: get_cluster_data is
\* called, else hub_loop returns.
Wake ==
    /\ loop.pc = "sleep"
    /\ loop' = [loop EXCEPT !.pc = IF while_running(running, websocket_connections) THEN "fetch" ELSE "off"]
    /\ UNCHANGED <<websocket_connections, view, running, cycle, node_status, node_cache, hub_time, hub_call, hub_pre, polls, observed, reachable, loop_tasks, alert_vars, gpu_vars>>

\* get_cluster_data has returned: a cycle begins; if connections: the
\* iteration over the set begins, up to the first send_text.
FetchDone ==
    /\ loop.pc = "fetch"
    /\ view' = get_cluster_data(Hub, hub_time)
    /\ IF websocket_connections = {}
       THEN /\ loop' = [NoLoop EXCEPT !.pc = "sleep", !.cluster_data = Some(view')]
            /\ cycle' = [NoCycle EXCEPT !.ended = TRUE, !.dropped = cycle.dropped \cup loop.disconnected, !.idle = TRUE]
            /\ UNCHANGED websocket_connections
       ELSE Proceed(hub_loop_next([NoLoop EXCEPT !.cluster_data = Some(view'), !.used = Cardinality(websocket_connections), !.todo = websocket_connections],
                                  websocket_connections, [NoCycle EXCEPT !.whole = websocket_connections, !.dropped = cycle.dropped \cup loop.disconnected, !.idle = cycle.idle]))
    /\ UNCHANGED <<running, node_status, node_cache, hub_time, hub_call, hub_pre, polls, observed, reachable, loop_tasks, alert_vars, gpu_vars>>

\* send_text has returned or raised; a websocket whose push raised is put
\* into disconnected, and the iteration goes on.
SendDone(failed) ==
    /\ loop.pc = "send"
    /\ Proceed(hub_loop_next([loop EXCEPT !.disconnected = IF failed THEN @ \cup {loop.to[1]} ELSE @], websocket_connections, cycle))
    /\ UNCHANGED <<view, running, node_status, node_cache, hub_time, hub_call, hub_pre, polls, observed, reachable, loop_tasks, alert_vars, gpu_vars>>

\* The hub after a round of polls that were answered; no client yet.
InitBroadcast ==
    /\ AlertsIdle /\ NoDisconnects
    /\ \E earlier \in {r \in EarlierRounds : r # <<>> /\ r[1].kind = "ok"} :
        /\ hub_pre = IF earlier = <<>> THEN HubMonitor(HubNodes) ELSE aggregate_data(HubMonitor(HubNodes), HubNodes, earlier, 0).self
        /\ node_status = hub_pre.node_status
        /\ node_cache = hub_pre.node_cache
        /\ hub_call = [op |-> "__init__", outcomes |-> earlier, now |-> 0]
    /\ hub_time = 1
    /\ view = <<>>
    /\ polls = <<>> /\ observed = <<>> /\ reachable = {}
    /\ websocket_connections = {} /\ running = FALSE /\ loop = NoLoop /\ cycle = NoCycle /\ loop_tasks = 0

NextBroadcast ==
    \/ \E c \in Clients : Connect(c)
    \/ \E c \in Clients : Disconnect(c)
    \/ Wake
    \/ FetchDone
    \/ \E failed \in BOOLEAN : SendDone(failed)

SpecBroadcast == InitBroadcast /\ [][NextBroadcast]_vars

\* The event loop runs the loop's task: the sleep ends, get_cluster_data
\* returns, and send_text returns or raises.
SpecBroadcastFair ==
    /\ SpecBroadcast
    /\ WF_vars(Wake) /\ WF_vars(FetchDone) /\ WF_vars(\E failed \in BOOLEAN : SendDone(failed))

--------------------------------------------------------------------------
(* Simulated GPU disconnects (gpu_disconnect.py). Every request runs       *)
(* _simulated_disconnect as a coroutine on the event loop: from its call   *)
(* to the await of asyncio.sleep it runs without giving way, and so does   *)
(* the finally block. disconnects holds the coroutines started, in order.  *)

GpuIndices == {0, 1}

\* The most simulated disconnects asked for.
MaxDisconnects == 3

\* is_gpu_simulated_offline
is_gpu_simulated_offline(gpu_index) == gpu_index \in _simulated_offline_gpus

\* finally: if gpu_index in _simulated_offline_gpus: remove(gpu_index)
finally_remove(offline, tasks, t) == IF tasks[t].gpu_index \in offline THEN offline \ {tasks[t].gpu_index} ELSE offline

\* _simulated_disconnect up to `await asyncio.sleep(down_time)`.
StartDisconnect(gpu_index) ==
    /\ Len(disconnects) < MaxDisconnects
    /\ _simulated_offline_gpus' = _simulated_offline_gpus \cup {gpu_index}
    /\ disconnects' = Append(disconnects, [gpu_index |-> gpu_index, pc |-> "sleep"])
    /\ UNCHANGED <<alert_vars, hub_vars>>

\* The await ends: the sleep is over ("done"), the task was cancelled, or
\* the sleep raised ("failed"). Each way leads through the finally block.
EndDisconnect(t, how) ==
    /\ disconnects[t].pc = "sleep"
    /\ _simulated_offline_gpus' = finally_remove(_simulated_offline_gpus, disconnects, t)
    /\ disconnects' = [disconnects EXCEPT ![t].pc = how]
    /\ UNCHANGED <<alert_vars, hub_vars>>

InitDisconnect == AlertsIdle /\ NoHub /\ NoDisconnects

NextDisconnect ==
    \/ \E gpu_index \in GpuIndices : StartDisconnect(gpu_index)
    \/ \E t \in 1..Len(disconnects) : EndDisconnect(t, "done")
    \/ \E t \in 1..Len(disconnects) : EndDisconnect(t, "cancelled")
    \/ \E t \in 1..Len(disconnects) : EndDisconnect(t, "failed")

SpecDisconnect == InitDisconnect /\ [][NextDisconnect]_vars

--------------------------------------------------------------------------
(* Properties of evaluate and update_settings, read off the call that has  *)
(* just finished: `pre` is the manager before it, the variables are the    *)
(* manager after it, `call` holds its arguments and the messages it        *)
(* handed to _dispatch.                                                     *)

Evaluated == call.op = "evaluate"
Updated == call.op = "update_settings"

\* An evaluator is "active" in the words of the contract.
ContractActive(self) == self.enabled /\ self.backends # <<>> /\ \E i \in 1..Len(self.rules) : self.rules[i].threshold > 0

\* The keys a finished evaluate call had to decide: the devices in its map,
\* the enabled rules.
Decided == IF Evaluated /\ ContractActive(pre) THEN {key \in Keys : key[1] = call.node_name /\ key[2] \in DOMAIN call.gpu_data /\ RuleNamed(pre.rules, key[3]).threshold > 0} ELSE {}

\* A key's state before the call; a key never seen is inactive, never sent.
Before(key) == IF key \in DOMAIN pre._state THEN pre._state[key] ELSE [active |-> FALSE, last_sent |-> 0]
ValueOf(key) == Reading(pre.rules, call.gpu_data, key)
ThresholdOf(key) == RuleNamed(pre.rules, key[3]).threshold
\* The reset delta in force: the rule's own, else the global one.
DeltaOf(key) == IF RuleNamed(pre.rules, key[3]).reset_delta # None THEN RuleNamed(pre.rules, key[3]).reset_delta ELSE pre.reset_delta
Over(key) == ValueOf(key) # None /\ ValueOf(key)[1] >= ThresholdOf(key)
CooldownElapsed(key) == call.timestamp - Before(key).last_sent >= pre.cooldown_seconds
Triggered(key) == Notified(call.dispatched, "alert", key)
Recovered(key) == Notified(call.dispatched, "recovery", key)
InBand(key) == DeltaOf(key) # None /\ DeltaOf(key)[1] > 0 /\ ValueOf(key) # None /\ ValueOf(key)[1] < ThresholdOf(key) /\ ValueOf(key)[1] > ThresholdOf(key) - DeltaOf(key)[1]

\* C1: hysteresis. An active key whose reading falls into the band
\* threshold - d < value < threshold (d > 0 the reset delta in force) stays
\* active, and an active key turns inactive only on an absent reading or on
\* one at or below threshold - d.
C1_HysteresisKeepsActive ==
    \A key \in Decided :
        /\ Before(key).active /\ InBand(key) => key \in DOMAIN _state /\ _state[key].active
        /\ (Before(key).active /\ DeltaOf(key) # None /\ DeltaOf(key)[1] > 0 /\ ~_state[key].active) => (ValueOf(key) = None \/ ValueOf(key)[1] <= ThresholdOf(key) - DeltaOf(key)[1])

\* C2: an update_settings call that raises a validation error leaves every
\* setting and the alert state as they were before the call.
C2_RejectedUpdateChangesNothing == (Updated /\ raised = "ValueError") => Manager = pre


TriggerCondition(key) == Over(key) /\ (~Before(key).active \/ CooldownElapsed(key))
Confirmed(key) == ValueOf(key) = None \/ DeltaOf(key) = None \/ ValueOf(key)[1] <= ThresholdOf(key) - DeltaOf(key)[1]
RecoveryCondition(key) == Before(key).active /\ ~Over(key) /\ Confirmed(key) /\ (pre.cooldown_seconds <= 0 \/ CooldownElapsed(key))

\* C3: a decided key triggers iff its value is present and >= threshold and
\* (it was inactive or the cooldown has elapsed since last_sent); a trigger
\* sets active = true, last_sent = now; an active key over the threshold
\* inside the cooldown keeps its state and triggers nothing.
C3_TriggerCondition ==
    \A key \in Decided :
        /\ Triggered(key) <=> TriggerCondition(key)
        /\ TriggerCondition(key) => _state[key] = [active |-> TRUE, last_sent |-> call.timestamp]
        /\ (Over(key) /\ Before(key).active /\ ~CooldownElapsed(key)) => (_state[key] = Before(key) /\ ~Triggered(key))

\* Two active keys over the threshold in one call: the one whose cooldown
\* has elapsed triggers, the other does not.
C3_Witness == \E k1 \in Decided, k2 \in Decided : Over(k1) /\ Over(k2) /\ Before(k1).active /\ Before(k2).active /\ pre.cooldown_seconds > 0 /\ Triggered(k1) /\ ~Triggered(k2)

\* C4: while every reading of a key stays >= threshold, an alert for the key
\* comes at least cooldown_seconds after the previous one, and exactly when
\* that long has passed; the first reading of such a run alerts.
C4_CooldownBetweenTriggers ==
    \A key \in Decided :
        /\ (Over(key) /\ call.streak[key] # None) => (Triggered(key) <=> call.timestamp - call.streak[key][1] >= pre.cooldown_seconds)
        /\ (Over(key) /\ call.streak[key] = None) => Triggered(key)

\* Cooldown 60, alert at t = 0, readings over the threshold ever since,
\* alert again at t = 65.
C4_Witness == \E key \in Decided : pre.cooldown_seconds = 60 /\ call.streak[key] = Some(0) /\ call.timestamp = 65 /\ Triggered(key)

\* C5: a reading at or below threshold - reset_delta resets an active key
\* (active = false, no trigger, and no recovery notice inside the cooldown);
\* an inactive key alerts on the next reading >= threshold, whatever the
\* time since its last alert.
C5_ResetAllowsNewAlert ==
    \A key \in Decided :
        /\ (Before(key).active /\ ~Over(key) /\ ValueOf(key) # None /\ DeltaOf(key) # None /\ ValueOf(key)[1] <= ThresholdOf(key) - DeltaOf(key)[1]) =>
                /\ ~_state[key].active
                /\ ~Triggered(key)
                /\ ~CooldownElapsed(key) => ~Recovered(key)
        /\ (~Before(key).active /\ Over(key)) => Triggered(key)

\* A key that alerted at t = 5 and was reset alerts again before the
\* cooldown of 60 has passed.
C5_Witness == \E key \in Decided : ~Before(key).active /\ Before(key).last_sent = 5 /\ pre.cooldown_seconds = 60 /\ ~CooldownElapsed(key) /\ ThresholdOf(key) = 80 /\ DeltaOf(key) = Some(5) /\ Triggered(key)

\* C6: a decided key whose reading is absent does not trigger and is
\* inactive after the call, in particular when it was active before.
C6_MissingValueClears == \A key \in Decided : ValueOf(key) = None => (~Triggered(key) /\ ~_state[key].active)

C6_Witness == \E key \in Decided : Before(key).active /\ ValueOf(key) = None /\ ~_state[key].active

\* C7: a recovery notice for a key is dispatched iff the key was active, the
\* reading is not over the threshold, the recovery is confirmed (absent
\* reading, no reset delta, or reading <= threshold - reset delta) and
\* (cooldown_seconds <= 0 or the cooldown has elapsed since last_sent).
C7_RecoveryNotice == \A key \in Decided : Recovered(key) <=> RecoveryCondition(key)

\* A notice after the cooldown for a reading that fell below the band.
C7_Witness == \E key \in Decided : Recovered(key) /\ pre.cooldown_seconds > 0 /\ ValueOf(key) # None /\ DeltaOf(key) # None

MessagesFor(event, gpu_id) == {m \in 1..Len(call.dispatched) : call.dispatched[m].event = event /\ call.dispatched[m].gpu_id = gpu_id /\ call.dispatched[m].node_name = call.node_name}
RulesIn(m) == {call.dispatched[m].entries[e][1] : e \in 1..Len(call.dispatched[m].entries)}
OneMessage(event, gpu_id, keys) ==
    /\ Cardinality(MessagesFor(event, gpu_id)) = IF keys = {} THEN 0 ELSE 1
    /\ \A m \in MessagesFor(event, gpu_id) : RulesIn(m) = {key[3] : key \in keys} /\ Len(call.dispatched[m].entries) = Cardinality(keys)

\* C8: one evaluate call dispatches, per device, one alert message exactly
\* when some rule triggered, naming all the rules that triggered and each
\* once, and likewise one recovery message; no other message is dispatched.
C8_OneMessagePerDevice ==
    Evaluated =>
        /\ \A g \in 1..Len(GpuIds) :
            /\ OneMessage("alert", GpuIds[g], {key \in Decided : key[2] = GpuIds[g] /\ TriggerCondition(key)})
            /\ OneMessage("recovery", GpuIds[g], {key \in Decided : key[2] = GpuIds[g] /\ RecoveryCondition(key)})
        /\ \A m \in 1..Len(call.dispatched) : \E g \in 1..Len(GpuIds) : m \in MessagesFor("alert", GpuIds[g]) \cup MessagesFor("recovery", GpuIds[g])

\* Two rules of one device trigger together.
C8_Witness == Evaluated /\ \E m \in 1..Len(call.dispatched) : call.dispatched[m].event = "alert" /\ Len(call.dispatched[m].entries) = 2

\* C9: an evaluate call on an inactive evaluator (not enabled, or no
\* backend, or no rule with threshold > 0) dispatches nothing and leaves the
\* state table as it was; on any other evaluator it runs: every enabled
\* rule of every device in the map has an entry afterwards.
C9_InactiveEvaluatorSkips ==
    Evaluated =>
        /\ ~ContractActive(pre) => (call.dispatched = <<>> /\ spawned = <<>> /\ _state = pre._state)
        /\ \A key \in Decided : key \in DOMAIN _state

\* A disabled evaluator holding entries is handed a reading over a threshold.
C9_Witness == Evaluated /\ ~pre.enabled /\ pre.backends # <<>> /\ DOMAIN pre._state # {} /\ \E key \in Keys : key[2] \in DOMAIN call.gpu_data /\ ThresholdOf(key) > 0 /\ Over(key)

\* C10: an update_settings call that succeeds leaves the state table empty,
\* and a key without an entry triggers on a reading >= threshold.
C10_UpdateClearsState ==
    /\ (Updated /\ raised = "none") => _state = NoGpuData
    /\ \A key \in Decided : (key \notin DOMAIN pre._state /\ Over(key)) => (Triggered(key) /\ _state[key] = [active |-> TRUE, last_sent |-> call.timestamp])

\* A successful update empties a table that held an active key.
C10_Witness == Updated /\ raised = "none" /\ _state = NoGpuData /\ \E key \in DOMAIN pre._state : pre._state[key].active


--------------------------------------------------------------------------
(* Properties of the settings API and the settings store.                  *)

Constructing == call.op = "construct"
\* What get_settings returned before the call and returns after it.
SettingsBefore == _snapshot_for_response_locked(pre, settings_store)
SettingsNow == _snapshot_for_response_locked(Manager, settings_store)

\* Validation as the contract states it: numbers >= 0, null allowed for the
\* reset deltas, rules a list of objects, unknown rule names ignored.
BadNumber(value) == Len(value) # 1 \/ value[1] < 0
Known(names, entry) == entry.type = "dict" /\ "name" \in DOMAIN entry.items /\ \E i \in 1..Len(names) : names[i].name = entry.items.name
BadEntry(names, entry) ==
    \/ entry.type # "dict"
    \/ /\ Known(names, entry)
       /\ \/ "threshold" \in DOMAIN entry.items /\ BadNumber(entry.items.threshold)
          \/ "reset_delta" \in DOMAIN entry.items /\ entry.items.reset_delta # None /\ BadNumber(entry.items.reset_delta)
Rejected(self, payload) ==
    \/ payload.type # "dict"
    \/ /\ payload.type = "dict"
       /\ \/ "cooldown_seconds" \in DOMAIN payload.items /\ BadNumber(payload.items.cooldown_seconds)
          \/ "reset_delta" \in DOMAIN payload.items /\ payload.items.reset_delta # None /\ BadNumber(payload.items.reset_delta)
          \/ "rules" \in DOMAIN payload.items /\ (payload.items.rules.type # "list" \/ \E e \in 1..Len(payload.items.rules.items) : BadEntry(self.rules, payload.items.rules.items[e]))
          \/ "backends" \in DOMAIN payload.items /\ self._custom_backends = None /\ _normalize_backend_payload(payload.items.backends).error

\* The entries of a payload that write `field` of the rule `name`.
Writers(payload, name, field) ==
    IF payload.type # "dict" THEN {}
    ELSE IF "rules" \notin DOMAIN payload.items THEN {}
    ELSE IF payload.items.rules.type # "list" THEN {}
    ELSE {e \in 1..Len(payload.items.rules.items) : payload.items.rules.items[e].type = "dict" /\ "name" \in DOMAIN payload.items.rules.items[e].items /\ payload.items.rules.items[e].items.name = name /\ field \in DOMAIN payload.items.rules.items[e].items}
LastWriter(payload, name, field) == payload.items.rules.items[CHOOSE e \in Writers(payload, name, field) : \A f \in Writers(payload, name, field) : f <= e].items[field]
Carries(payload, field) == payload.type = "dict" /\ field \in DOMAIN payload.items

\* Every field the payload carries reads back as written (for a rule named
\* more than once, as its last entry wrote it).
Supplied(after, payload) ==
    /\ Carries(payload, "enabled") => after.enabled = payload.items.enabled
    /\ Carries(payload, "cooldown_seconds") => after.cooldown_seconds = payload.items.cooldown_seconds[1]
    /\ Carries(payload, "reset_delta") => after.reset_delta = payload.items.reset_delta
    /\ \A i \in 1..Len(after.rules) :
        /\ Writers(payload, after.rules[i].name, "threshold") # {} => after.rules[i].threshold = LastWriter(payload, after.rules[i].name, "threshold")[1]
        /\ Writers(payload, after.rules[i].name, "reset_delta") # {} => after.rules[i].reset_delta = LastWriter(payload, after.rules[i].name, "reset_delta")

\* Every setting and every rule the payload does not mention is as before.
Untouched(before, after, payload) ==
    /\ ~Carries(payload, "enabled") => after.enabled = before.enabled
    /\ ~Carries(payload, "cooldown_seconds") => after.cooldown_seconds = before.cooldown_seconds
    /\ ~Carries(payload, "reset_delta") => after.reset_delta = before.reset_delta
    /\ ~Carries(payload, "backends") => (after.backends = before.backends /\ after.available_backends = before.available_backends)
    /\ Len(after.rules) = Len(before.rules)
    /\ \A i \in 1..Len(before.rules) :
        /\ after.rules[i].name = before.rules[i].name
        /\ Writers(payload, before.rules[i].name, "threshold") = {} => after.rules[i].threshold = before.rules[i].threshold
        /\ Writers(payload, before.rules[i].name, "reset_delta") = {} => after.rules[i].reset_delta = before.rules[i].reset_delta

\* C11: an update_settings call whose payload is valid and whose save fails
\* raises RuntimeError (not the ValueError of a rejected payload), and the
\* settings in memory are the newly written ones: nothing is rolled back.
C11_SaveFailureKeepsChange ==
    (Updated /\ settings_store # None /\ ~call.saved /\ ~Rejected(pre, call.payload)) =>
        /\ raised = "RuntimeError"
        /\ Supplied(SettingsNow, call.payload)
        /\ Untouched(SettingsBefore, SettingsNow, call.payload)

\* A failed save after a cooldown and a threshold were changed.
C11_Witness == Updated /\ raised = "RuntimeError" /\ cooldown_seconds = 45 /\ pre.cooldown_seconds # 45 /\ rules[1].threshold = 70 /\ pre.rules[1].threshold # 70

\* Settings, rule by rule, without the state table.
SameSettings(a, b) == a.enabled = b.enabled /\ a.cooldown_seconds = b.cooldown_seconds /\ a.reset_delta = b.reset_delta /\ a.rules = b.rules /\ a.backend_settings = b.backend_settings /\ a.backends = b.backends

\* C12: a constructor that finds no file, an unreadable file or a document
\* update_settings would reject does not raise and leaves the settings its
\* arguments gave: no field of the document is applied.
C12_InvalidDocumentIgnored ==
    (Constructing /\ (call.payload.type \in {"None", "corrupt"} \/ Rejected(pre, call.payload))) => (raised = "none" /\ SameSettings(Manager, pre))

\* The arguments a second manager over the same rules may be built with.
OtherDefaults == {Defaults(e, 30, g, <<AlertRule("temperature", 50, Some(1)), AlertRule("memory_percent", 90, d)>>, _custom_backends) : e \in BOOLEAN, g \in {None, Some(2)}, d \in {None, Some(3)}}

\* C13: right after a successful update_settings on a manager with a store,
\* a manager constructed over the same rule names and the same store has
\* the same enabled flag, cooldown, reset delta, rule thresholds and reset
\* deltas, and the same channels when the store manages them, whatever
\* its constructor arguments.
C13_PersistRoundTrip ==
    (Updated /\ raised = "none" /\ settings_store # None) =>
        \A other \in OtherDefaults :
            /\ _load_persisted_settings(other, settings_store).enabled = enabled
            /\ _load_persisted_settings(other, settings_store).cooldown_seconds = cooldown_seconds
            /\ _load_persisted_settings(other, settings_store).reset_delta = reset_delta
            /\ _load_persisted_settings(other, settings_store).rules = rules
            /\ _custom_backends = None => (_load_persisted_settings(other, settings_store).backend_settings = backend_settings /\ _load_persisted_settings(other, settings_store).backends = backends)

\* A saved update that set a rule's reset delta to null and configured a
\* channel: the second manager's own values all differ.
C13_Witness == Updated /\ raised = "none" /\ settings_store # None /\ _custom_backends = None /\ backend_settings # <<>> /\ rules[1].reset_delta = None /\ ~enabled


\* C14: an update_settings call leaves every setting and every rule its
\* payload does not mention as get_settings showed it before, and when it
\* succeeds every field it carries reads back from get_settings as written.
C14_PartialUpdateFrame ==
    Updated =>
        /\ Untouched(SettingsBefore, SettingsNow, call.payload)
        /\ raised = "none" => Supplied(SettingsNow, call.payload)

\* A new temperature threshold is written next to a cooldown set earlier.
C14_Witness == Updated /\ raised = "none" /\ Writers(call.payload, "temperature", "threshold") # {} /\ rules[1].threshold # pre.rules[1].threshold /\ ~Carries(call.payload, "cooldown_seconds") /\ cooldown_seconds = 10

OptionalNonNegative(value) == value = None \/ value[1] >= 0

UnknownOnly(payload) == Carries(payload, "rules") /\ DOMAIN payload.items = {"rules"} /\ \A e \in 1..Len(payload.items.rules.items) : ~Known(pre.rules, payload.items.rules.items[e])

\* C16: the rule names are those of the constructor, in order, after any
\* update; a payload whose rule entries name no existing rule raises
\* nothing and leaves every threshold and reset delta as it was.
C16_RuleNamesFixed ==
    /\ [i \in 1..Len(rules) |-> rules[i].name] = RuleNames
    /\ (Updated /\ UnknownOnly(call.payload)) => (raised = "none" /\ rules = pre.rules)

\* An update that carried an entry for an unknown rule went through.
C16_Witness == Updated /\ UnknownOnly(call.payload) /\ raised = "none" /\ rules[1].threshold = 75

--------------------------------------------------------------------------
(* Properties of send_test_notification and of the send tasks.             *)

SentTest == call.op = "send_test"

\* The tasks the last call handed over: one per dispatched message and
\* channel, in order, and the last tasks of the pool.
HandedOver(self, dispatched) ==
    /\ Len(spawned) = Len(dispatched) * Len(self.backends)
    /\ Len(spawned) <= Len(pool)
    /\ \A m \in 1..Len(dispatched), b \in 1..Len(self.backends) :
        /\ spawned[(m - 1) * Len(self.backends) + b] = [backend |-> self.backends[b], message |-> dispatched[m]]
        /\ pool[Len(pool) - Len(spawned) + (m - 1) * Len(self.backends) + b].backend = self.backends[b]
        /\ pool[Len(pool) - Len(spawned) + (m - 1) * Len(self.backends) + b].message = dispatched[m]

\* C17: send_test_notification raises and dispatches nothing when no channel
\* is configured; otherwise it hands exactly one synthetic message to every
\* configured channel, whatever the enabled flag and the thresholds are, and
\* in both cases AlertState and the settings are as they were.
C17_TestNotification ==
    SentTest =>
        /\ Manager = pre
        /\ streak = call.streak
        /\ pre.backends = <<>> => raised = "ValueError" /\ spawned = <<>>
        /\ pre.backends # <<>> =>
            /\ raised = "none"
            /\ call.dispatched = <<TestMessage>>
            /\ HandedOver(pre, <<TestMessage>>)

\* A disabled manager with two channels sent its test message.
C17_Witness == SentTest /\ ~pre.enabled /\ pre.backends # <<>> /\ Len(spawned) = 2

\* Every send handed over for a healthy channel has been made. A send that
\* was made stays made, and the pool the model follows is bounded: "always,
\* from some point on" says that each such send is eventually made.
HealthySent == \A i \in 1..Len(pool) : pool[i].backend = HealthyBackend => pool[i].status = "sent"
HasFailing == \E b \in 1..Len(backends) : backends[b] = FailingBackend

\* C18: with a channel that raises on every send next to a healthy one,
\* evaluate and send_test_notification do not raise, every dispatched message
\* is handed over for every channel, and every send for the healthy channel
\* is eventually made.
C18_ChannelIsolation ==
    /\ []((Evaluated \/ SentTest) /\ pre.backends # <<>> => raised = "none" /\ HandedOver(pre, call.dispatched))
    /\ <>[](HasFailing => HealthySent)

\* The failing channel's send of a message failed and the healthy
\* channel's send of the same message was made.
C18_Witness == \E i \in 1..Len(pool), j \in 1..Len(pool) : pool[i].status = "failed" /\ pool[j].status = "sent" /\ pool[i].message = pool[j].message /\ pool[i].message.event # "test"

\* C19: every send handed over for a healthy channel is eventually made,
\* however many sends of a slow channel are outstanding.
C19_SlowChannelDelaysNobody == <>[]HealthySent

--------------------------------------------------------------------------
(* Properties of the lock.                                                 *)

\* What the evaluation, had it run alone on the manager it found on entry,
\* would have left and dispatched.
EvaluationAlone(t) == evaluate(t.entry, t.node_name, t.gpu_data, t.timestamp)

\* What the update, had it run alone on the manager it found on entry,
\* would have left.
UpdateAlone(t) == _apply_settings_locked(t.entry, t.payload, TRUE, FALSE, TRUE)

\* C20: evaluate and update_settings never interleave. While one of them is
\* between entry and exit the other is outside; until an evaluation leaves,
\* the settings are those it found on entry, and on leaving its state table
\* and its messages are those of the whole cycle run on that manager; an
\* update leaves the manager it would have left running alone.
C20_NoInterleaving ==
    /\ ~(threads.evaluate.pc # "idle" /\ threads.update_settings.pc # "idle")
    /\ threads.evaluate.pc # "idle" =>
        /\ _lock = "evaluate"
        /\ [Manager EXCEPT !._state = NoGpuData] = [threads.evaluate.entry EXCEPT !._state = NoGpuData]
    /\ threads.evaluate.pc = "exit" =>
        /\ _state = EvaluationAlone(threads.evaluate)._state
        /\ threads.evaluate.dispatched = EvaluationAlone(threads.evaluate).dispatched
    /\ threads.update_settings.pc # "idle" => _lock = "update_settings"
    /\ threads.update_settings.pc = "exit" =>
        /\ Manager = UpdateAlone(threads.update_settings).self
        /\ threads.update_settings.raised = UpdateAlone(threads.update_settings).raised

\* An evaluation of two GPUs, on settings an update had changed and on a
\* state table an earlier evaluation had filled, is about to leave with
\* a message.
C20_Witness ==
    /\ threads.evaluate.pc = "exit"
    /\ threads.evaluate.dispatched # <<>>
    /\ threads.evaluate.entry.rules[1].threshold = 75
    /\ threads.evaluate.entry._state # NoGpuData
    /\ DOMAIN threads.evaluate.gpu_data = {"0", "1"}

--------------------------------------------------------------------------
(* Properties of the hub, read off the last hub call: hub_call says which  *)
(* call it was and how its polls ended, hub_pre holds the records and the  *)
(* cache before it, view the dict aggregate_data returned.                 *)

Aggregated == hub_call.op = "aggregate_data"
UrlOf(i) == HubNodes[i].url

\* The nodes the last call polled, and those among them whose poll failed.
PolledNodes == IF Aggregated THEN 1..Len(HubNodes) ELSE {}
OutcomeOf(i) == hub_call.outcomes[i]
FailedNodes == {i \in PolledNodes : OutcomeOf(i).kind # "ok"}

\* now - last_seen < offline_cache_duration
WithinCacheDuration(record, now) == record.last_seen # None /\ now - record.last_seen[1] < CACHE_OFFLINE_DURATION

ReceivedNodes == PolledNodes \ FailedNodes

\* C23: after a successful receipt from a node, its record is online,
\* last_seen is the time of the receipt, error_count is 0 and last_error is
\* cleared, and the stored snapshot is the document just received.
C23_SuccessfulReceipt ==
    \A i \in ReceivedNodes :
        /\ node_status[UrlOf(i)] = [status |-> "online", last_seen |-> Some(hub_call.now), error_count |-> 0, last_error |-> None]
        /\ UrlOf(i) \in DOMAIN node_cache
        /\ node_cache[UrlOf(i)].cached_at = hub_call.now
        /\ node_cache[UrlOf(i)].data.gpus = OutcomeOf(i).data.gpus
        /\ node_cache[UrlOf(i)].data.gpus_null = OutcomeOf(i).data.gpus_null
        /\ node_cache[UrlOf(i)].data.processes = OutcomeOf(i).data.processes
        /\ node_cache[UrlOf(i)].data.status = OutcomeOf(i).data.status
        /\ node_cache[UrlOf(i)].data.error = OutcomeOf(i).data.error

\* A node with two failures behind it and an older snapshot of another
\* document received data.
C23_Witness ==
    /\ 1 \in ReceivedNodes
    /\ hub_pre.node_status[UrlOf(1)].error_count = 2
    /\ hub_pre.node_status[UrlOf(1)].last_error # None
    /\ UrlOf(1) \in DOMAIN hub_pre.node_cache
    /\ hub_pre.node_cache[UrlOf(1)].data.gpus = {"0", "1"}
    /\ hub_pre.node_cache[UrlOf(1)].cached_at < hub_call.now
    /\ node_cache[UrlOf(1)].data.gpus = {"0"}

NodeStatuses == {"online", "offline", "error", "unknown"}

\* C24: every stored status and every status shown in a view is one of
\* online, offline, error, unknown; a timed-out or refused poll stores
\* offline, any other failure stores error with last_error populated.
C24_StatusValues ==
    /\ \A url \in Urls : node_status[url].status \in NodeStatuses
    /\ Aggregated => \A url \in Urls : view.nodes[url].status \in NodeStatuses /\ view.summary.node_status \in [{"node1", "node2"} -> [url : Urls, status : NodeStatuses, last_seen : {None} \cup {Some(t) : t \in HubTimes}, error_count : 0..MaxErrors + 1]]
    /\ \A i \in FailedNodes :
        /\ OutcomeOf(i).kind \in {"timeout", "refused"} => node_status[UrlOf(i)].status = "offline"
        /\ OutcomeOf(i).kind = "error" => node_status[UrlOf(i)].status = "error" /\ node_status[UrlOf(i)].last_error # None

\* C25: right after construction every configured node is offline and has
\* no snapshot: no cache entry, no last_seen, error_count 0.
C25_InitialRecords ==
    hub_call.op = "__init__" =>
        \A url \in Urls :
            /\ node_status[url].status = "offline"
            /\ url \notin DOMAIN node_cache
            /\ node_status[url].last_seen = None
            /\ node_status[url].error_count = 0

\* The devices of the entries of a view, counted entry by entry.
RECURSIVE DevicesOf(_, _)
DevicesOf(entries, urls) ==
    IF urls = {} THEN 0
    ELSE LET url == CHOOSE u \in urls : TRUE
         IN  Cardinality(entries[url].gpus) + DevicesOf(entries, urls \ {url})

\* C26: the summary of a view agrees with the entries of that view:
\* total_nodes is the number of entries, online_nodes the number of entries
\* served live, offline_nodes the number served from the cache or as a
\* placeholder, the two add up to total_nodes, and total_gpus is the sum of
\* the sizes of the entries' device maps.
C26_SummaryAgrees ==
    Aggregated =>
        /\ view.summary.total_nodes = Cardinality(DOMAIN view.nodes)
        /\ view.summary.online_nodes = Cardinality({url \in DOMAIN view.nodes : \E i \in ReceivedNodes : UrlOf(i) = url})
        /\ view.summary.offline_nodes = Cardinality({url \in DOMAIN view.nodes : \E i \in FailedNodes : UrlOf(i) = url})
        /\ view.summary.online_nodes + view.summary.offline_nodes = view.summary.total_nodes
        /\ view.summary.total_gpus = DevicesOf(view.nodes, DOMAIN view.nodes)

\* The round of the last call, had the poll of node f received data.
HadBeenHealthy(f, data) == aggregate_data(hub_pre, HubNodes, [hub_call.outcomes EXCEPT ![f] = Received(data)], hub_call.now)

SameCacheEntry(a, b, url) == (url \in DOMAIN a <=> url \in DOMAIN b) /\ (url \in DOMAIN a => a[url] = b[url])

\* C28: a poll that times out or fails does not end the round and touches
\* only its own node: every node has an entry in the view, and every other
\* node's record, cache entry and entry in the view are what they would be
\* had the failing node answered.
C28_PollFailureIsolated ==
    Aggregated =>
        /\ DOMAIN view.nodes = Urls
        /\ \A f \in FailedNodes, m \in 1..Len(HubNodes) :
            m # f => \A data \in AgentPayloads :
                /\ node_status[UrlOf(m)] = HadBeenHealthy(f, data).self.node_status[UrlOf(m)]
                /\ SameCacheEntry(node_cache, HadBeenHealthy(f, data).self.node_cache, UrlOf(m))
                /\ view.nodes[UrlOf(m)] = HadBeenHealthy(f, data).aggregated.nodes[UrlOf(m)]

\* The first node timed out in the round in which the second, offline
\* before, came back with data.
C28_Witness ==
    /\ Aggregated
    /\ hub_call.outcomes[1] = TimedOut
    /\ 2 \in ReceivedNodes
    /\ hub_pre.node_status[UrlOf(2)].status = "offline"
    /\ node_status[UrlOf(2)].status = "online"
    /\ view.nodes[UrlOf(2)].gpus = {"0"}

\* A record as one completed update writes it: the record of __init__, the
\* record of a receipt, or the record of a failure.
WholeRecord(record) ==
    /\ record.status = "unknown" => record.last_seen = None /\ record.error_count = 0 /\ record.last_error = None
    /\ record.status = "online" => record.last_seen # None /\ record.error_count = 0 /\ record.last_error = None
    /\ record.status \notin {"unknown", "online"} => record.error_count > 0 /\ record.last_error # None

\* C27: a reader never sees a partly updated record, also while polls of
\* the node are under way: every record read is one a completed update
\* wrote as a whole, and when the polls have ended no failure's increment
\* of error_count is missing.
C27_RecordsReadWhole ==
    /\ observed # <<>> => WholeRecord(observed[1])
    /\ (\A t \in PollThreads : polls.threads[t].pc \in {"idle", "done"}) =>
        \A url \in Urls : node_status[url].error_count = polls.failed[url]

\* The node is online and its entry of the last view is the snapshot
\* received in that round.
LiveAgain(i) ==
    /\ node_status[UrlOf(i)].status = "online"
    /\ Aggregated
    /\ OutcomeOf(i).kind = "ok"
    /\ UrlOf(i) \in DOMAIN view.nodes
    /\ view.nodes[UrlOf(i)] = WithConfig(OutcomeOf(i).data, HubNodes[i])

\* C29: no failure status is terminal: a node that has become reachable
\* and stays so is eventually online with its live snapshot in the
\* cluster view, whatever its status and however many failures came before.
C29_NoFailureIsTerminal ==
    \A i \in 1..Len(HubNodes) : (UrlOf(i) \in reachable) ~> LiveAgain(i)

\* A node comes back online in the round after MaxErrors failed rounds.
C29_Witness ==
    \E i \in 1..Len(HubNodes) :
        /\ LiveAgain(i)
        /\ UrlOf(i) \in reachable
        /\ hub_pre.node_status[UrlOf(i)].error_count = MaxErrors
        /\ hub_pre.node_status[UrlOf(i)].status \in {"timeout", "offline", "error"}

\* C30: in each broadcast cycle every subscriber registered for the whole
\* cycle is sent the view of that cycle, whether or not the push to
\* another subscriber fails and whether or not other subscribers connect
\* or disconnect while the sends are under way.
C30_EverySubscriberSent ==
    cycle.ended => cycle.whole \subseteq cycle.sent_to

\* C31: a subscriber whose push failed is out of the subscriber set when
\* the cycle ends and no later cycle calls send_text on it; the loop is
\* still there for its next cycle.
C31_FailedSubscriberRemoved ==
    /\ cycle.ended => loop.disconnected \cap websocket_connections = {}
    /\ cycle.sent_to \cap cycle.dropped = {}
    /\ running => loop.pc \in {"fetch", "send", "sleep"}

\* C32: the broadcast loop is started exactly once: the first connection
\* sets the running flag and creates the loop's task, and no later
\* connection creates another, whatever the order of connects and
\* disconnects.
C32_LoopStartedOnce ==
    /\ loop_tasks <= 1
    /\ running <=> loop_tasks = 1
    /\ websocket_connections # {} => running

\* Every client has connected and the one loop is sending to them.
C32_Witness ==
    /\ websocket_connections = Clients
    /\ loop_tasks = 1
    /\ loop.pc = "send"
    /\ Cardinality(cycle.sent_to) >= 2

\* The loop has gone through a cycle without subscribers and is now
\* sending to one that connected later.
ServedAfterEmpty == loop_tasks = 1 /\ cycle.idle /\ ~cycle.ended /\ cycle.sent_to # {}

\* C33: once started the loop keeps running: the running flag is never
\* cleared and the loop never returns, also when the subscriber set is
\* empty, and no second loop is started; whenever the subscriber set
\* settles, the loop keeps completing cycles that send to every
\* subscriber in it.
C33_LoopKeepsRunning ==
    /\ [][(running => running') /\ (loop.pc # "off" => loop'.pc # "off") /\ (loop_tasks = 1 => loop_tasks' = 1)]_vars
    /\ \A S \in SUBSET Clients \ {{}} : []<>(websocket_connections # S \/ (cycle.ended /\ S \subseteq cycle.sent_to))

C33_Witness == ServedAfterEmpty

OwnDeltaOf(key) == RuleNamed(pre.rules, key[3]).reset_delta
\* An active key whose reading is below the threshold, with no cooldown in
\* the way of the notice.
Dropped(key) == Before(key).active /\ ValueOf(key) # None /\ ~Over(key) /\ (pre.cooldown_seconds <= 0 \/ CooldownElapsed(key))

\* C34: the reset delta of an evaluation is the rule's own when it is set,
\* whatever the global one is at that time, else the global one of that
\* time; with neither set every drop below the threshold recovers the
\* alert at once.
C34_ResetDeltaResolution ==
    \A key \in Decided : Dropped(key) =>
        /\ OwnDeltaOf(key) # None => (Recovered(key) <=> ValueOf(key)[1] <= ThresholdOf(key) - OwnDeltaOf(key)[1])
        /\ (OwnDeltaOf(key) = None /\ pre.reset_delta # None) => (Recovered(key) <=> ValueOf(key)[1] <= ThresholdOf(key) - pre.reset_delta[1])
        /\ (OwnDeltaOf(key) = None /\ pre.reset_delta = None) => (Recovered(key) /\ ~_state[key].active)

\* The global reset delta was changed from 5 to 2 and the rule kept its
\* own 5: a reading of 78 does not recover the alert.
C34_Witness ==
    \E key \in Decided : Dropped(key) /\ OwnDeltaOf(key) = Some(5) /\ pre.reset_delta = Some(2) /\ ValueOf(key) = Some(78) /\ ~Recovered(key)


--------------------------------------------------------------------------
(* C35: with the channels not fixed by the constructor, the active         *)
(* backends are, one for one and in order, the enabled entries of the      *)
(* stored channel list, each with all its required fields non-empty; and   *)
(* an update whose payload names an enabled channel that lacks a required  *)
(* field is rejected and leaves the channel list and the backends as they  *)
(* were.                                                                   *)

\* The required fields of a stored channel are all non-empty.
Complete(entry) ==
    IF entry.type = "discord" THEN strip(entry.webhook_url) # ""
    ELSE strip(entry.bot_token) # "" /\ strip(entry.chat_id) # ""

\* The backend that delivers to a stored channel.
BackendOf(entry) ==
    IF entry.type = "discord" THEN DiscordWebhookBackend(entry.webhook_url)
    ELSE TelegramBackend(entry.bot_token, entry.chat_id)

EnabledEntries(channels) == SelectSeq(channels, LAMBDA entry : entry.enabled)

\* A channel object of a payload that is enabled and lacks a required field.
LacksRequired(cfg, channel_type) ==
    /\ cfg.type = "dict"
    /\ Get(cfg.items, "enabled", TRUE) # FALSE
    /\ IF channel_type = "discord" THEN strip(Get(cfg.items, "webhook_url", "")) = ""
       ELSE IF channel_type = "telegram" THEN strip(Get(cfg.items, "bot_token", "")) = "" \/ strip(Get(cfg.items, "chat_id", "")) = ""
       ELSE FALSE

\* The payload of the finished call names such a channel, in either form.
NamesIncompleteChannel ==
    /\ call.payload.type = "dict"
    /\ "backends" \in DOMAIN call.payload.items
    /\ LET value == call.payload.items.backends
       IN  \/ value.type = "list" /\ \E i \in 1..Len(value.items) :
                value.items[i].type = "dict" /\ LacksRequired(value.items[i], Get(value.items[i].items, "type", ""))
           \/ value.type = "dict" /\ \E channel_type \in DOMAIN value.items : LacksRequired(value.items[channel_type], channel_type)

C35_ChannelsComplete ==
    _custom_backends = None =>
        /\ Len(backends) = Len(EnabledEntries(backend_settings))
        /\ \A i \in 1..Len(backends) :
            /\ Complete(EnabledEntries(backend_settings)[i])
            /\ backends[i] = BackendOf(EnabledEntries(backend_settings)[i])
        /\ (Updated /\ NamesIncompleteChannel) =>
            /\ raised = "ValueError"
            /\ backend_settings = pre.backend_settings
            /\ backends = pre.backends


--------------------------------------------------------------------------
(* C36: an accepted update_settings whose payload has the channel key      *)
(* replaces the whole channel list: the stored channels are exactly the    *)
(* complete channels the payload names, whatever was stored before, and    *)
(* an evaluation notifies stored channels only; an update whose payload    *)
(* has no channel key leaves the channel list and the backends unchanged.  *)

\* Where a stored channel delivers to.
Address(entry) == IF entry.type = "discord" THEN <<"discord", entry.webhook_url>> ELSE <<"telegram", entry.bot_token, entry.chat_id>>

\* Where a channel object of a payload asks to deliver to.
Asked(cfg, channel_type) ==
    IF channel_type = "discord" THEN <<"discord", strip(Get(cfg.items, "webhook_url", ""))>>
    ELSE <<"telegram", strip(Get(cfg.items, "bot_token", "")), strip(Get(cfg.items, "chat_id", ""))>>

\* The channels a backends value names, in either form; null names none.
ChannelsAsked(value) ==
    IF value.type = "list"
    THEN {Asked(value.items[i], value.items[i].items.type) : i \in {j \in 1..Len(value.items) : value.items[j].type = "dict" /\ Get(value.items[j].items, "type", "") \in {"discord", "telegram"}}}
    ELSE IF value.type = "dict"
    THEN {Asked(value.items[channel_type], channel_type) : channel_type \in {t \in DOMAIN value.items : value.items[t].type = "dict"}}
    ELSE {}

Addresses(channels) == {Address(channels[i]) : i \in 1..Len(channels)}

HasChannelKey == call.payload.type = "dict" /\ "backends" \in DOMAIN call.payload.items

--------------------------------------------------------------------------
(* C37: evaluate(node, device_map) reads and writes only the entries of    *)
(* the keys (node, d, r) with d in device_map and r an enabled rule: every *)
(* other entry is absent or present as before and holds what it held, and  *)
(* the new entry and the messages of a device are what the same call       *)
(* yields when the table holds that device's entries only.                 *)

AllKeys == {<<n, GpuIds[g], RuleNames[r]>> : n \in EvaluatedNodes, g \in 1..Len(GpuIds), r \in 1..Len(RuleNames)}

\* The keys the finished evaluate call is about.
InScope(key) == key[1] = call.node_name /\ key[2] \in DOMAIN call.gpu_data /\ is_enabled(RuleNamed(rules, key[3]))

Restricted(f, S) == [x \in DOMAIN f \cap S |-> f[x]]

\* The same call on a table and a device map that hold one device only.
AloneOutcome(node_name, gpu_id) ==
    evaluate([pre EXCEPT !._state = Restricted(pre._state, {<<node_name, gpu_id, RuleNames[r]>> : r \in 1..Len(RuleNames)})],
             node_name, Restricted(call.gpu_data, {gpu_id}), call.timestamp)

MessagesOf(dispatched, gpu_id) == SelectSeq(dispatched, LAMBDA m : m.gpu_id = gpu_id)

C37_OnlyOwnEntries ==
    Evaluated =>
        /\ \A key \in AllKeys : ~InScope(key) =>
            /\ key \in DOMAIN _state <=> key \in DOMAIN pre._state
            /\ key \in DOMAIN _state => _state[key] = pre._state[key]
        /\ DOMAIN _state \subseteq AllKeys
        /\ \A m \in 1..Len(call.dispatched) : call.dispatched[m].node_name = call.node_name /\ call.dispatched[m].gpu_id \in DOMAIN call.gpu_data
        /\ \A gpu_id \in DOMAIN call.gpu_data :
            /\ MessagesOf(call.dispatched, gpu_id) = AloneOutcome(call.node_name, gpu_id).dispatched
            /\ \A r \in 1..Len(RuleNames) : LET key == <<call.node_name, gpu_id, RuleNames[r]>> IN
                /\ key \in DOMAIN _state <=> key \in DOMAIN AloneOutcome(call.node_name, gpu_id)._state
                /\ key \in DOMAIN _state => _state[key] = AloneOutcome(call.node_name, gpu_id)._state[key]

\* One node's GPU is evaluated hot and alerts while the other node's entry
\* for the same GPU and the same node's other GPU stay active, and the
\* disabled rule has no entry.
C37_Witness ==
    /\ Evaluated /\ call.node_name = "node-2" /\ DOMAIN call.gpu_data = {"0"}
    /\ Notified(call.dispatched, "alert", <<"node-2", "0", "temperature">>)
    /\ <<"node-1", "0", "temperature">> \in DOMAIN _state /\ _state[<<"node-1", "0", "temperature">>].active
    /\ <<"node-2", "1", "temperature">> \in DOMAIN _state /\ _state[<<"node-2", "1", "temperature">>].active
    /\ ~is_enabled(RuleNamed(rules, "memory_percent"))


--------------------------------------------------------------------------
(* C38: serving a cached snapshot never refreshes its age. A stored        *)
(* snapshot and its time change only by a receipt from its node; between   *)
(* two views that serve a node from the cache the age shown grows by the   *)
(* time that passed; and once a view shows the placeholder for a node,     *)
(* every following view whose poll of the node failed shows it too,        *)
(* however often the view is requested.                                    *)

\* The view's entry for the i-th node is a served snapshot / the placeholder.
ServedFromCache(i) == Aggregated /\ i \in FailedNodes /\ view.nodes[UrlOf(i)].cache_age # None
ShowsPlaceholder(i) == Aggregated /\ i \in FailedNodes /\ view.nodes[UrlOf(i)].cache_age = None /\ view.nodes[UrlOf(i)].gpus = {}

C38_ServingKeepsAge ==
    [][\A i \in 1..Len(HubNodes) :
        /\ (UrlOf(i) \in DOMAIN node_cache /\ node_cache'[UrlOf(i)] # node_cache[UrlOf(i)]) =>
            /\ (i \in ReceivedNodes)'
            /\ node_cache'[UrlOf(i)].cached_at = hub_call'.now
        /\ (UrlOf(i) \notin DOMAIN node_cache /\ UrlOf(i) \in DOMAIN node_cache') => (i \in ReceivedNodes)'
        /\ (ServedFromCache(i) /\ ServedFromCache(i)') =>
            view'.nodes[UrlOf(i)].cache_age[1] - view.nodes[UrlOf(i)].cache_age[1] = hub_call'.now - hub_call.now
        /\ (ShowsPlaceholder(i) /\ (i \in FailedNodes)') => ShowsPlaceholder(i)'
        /\ (ServedFromCache(i) /\ (i \in FailedNodes)' /\ hub_call'.now - node_cache[UrlOf(i)].cached_at >= CACHE_OFFLINE_DURATION) => ShowsPlaceholder(i)'
    ]_vars

\* The first node was received at time 0 and has failed twice since; the
\* view asked for when the duration had elapsed shows the placeholder.
C38_Witness ==
    /\ ShowsPlaceholder(1)
    /\ UrlOf(1) \in DOMAIN node_cache /\ node_cache[UrlOf(1)].cached_at = 0
    /\ node_status[UrlOf(1)].error_count = 2
    /\ hub_call.now >= CACHE_OFFLINE_DURATION


--------------------------------------------------------------------------
(* C39: is_gpu_simulated_offline(g) is true exactly as long as at least    *)
(* one simulated disconnect of GPU g is in progress, also when two of the  *)
(* same GPU overlap, and false when none is, whether the disconnects       *)
(* ended by themselves, were cancelled or failed.                          *)

InProgress(gpu_index) == \E t \in 1..Len(disconnects) : disconnects[t].gpu_index = gpu_index /\ disconnects[t].pc = "sleep"

C39_OfflineWhileInProgress ==
    \A gpu_index \in GpuIndices : is_gpu_simulated_offline(gpu_index) <=> InProgress(gpu_index)

====
